---- MODULE Spec2Model ----
(***************************************************************************)
(* A model of pyAMPP's gxbox core: the azimuth disambiguation              *)
(* (boxutils.hmi_disambig), the field-vector rotation (boxutils.hmi_b2ptr) *)
(* the box geometry (gxbox_factory.Box) and the map cache of               *)
(* gxbox_factory.GxBox.                                                    *)
(*                                                                         *)
(* A map is a record [shape, data, meta]: shape is numpy's (ny, nx), data  *)
(* the pixels in row-major order, meta the header the map carries.         *)
(* Azimuths are whole degrees.  A disambiguation code is the rational      *)
(* n / CodeDen and is held as its numerator n, so that fractional and      *)
(* negative codes are inputs like any other.  Field strengths are whole     *)
(* numbers and every angle of the rotation is a multiple of 90 degrees, so *)
(* that its sines and cosines are the integers -1, 0 and 1.                *)
(***************************************************************************)
EXTENDS Integers, Sequences, FiniteSets, TLC

VARIABLES
    pc,          \* where the harness of the modelled call stands
    az_map,      \* the azimuth map object handed to hmi_disambig (its data is mutable)
    dis_map,     \* the disambiguation map object handed to hmi_disambig
    method_arg,  \* <<>> when the method argument is omitted, <<m>> otherwise
    az_orig,     \* the azimuth map as it was before the call
    dis_orig,    \* the disambiguation map as it was before the call
    ret1,        \* <<>> or <<map>>: what the first hmi_disambig call returned
    ret1_orig,   \* ret1 as it was when it was returned
    ret2,        \* <<>> or <<map>>: what hmi_disambig returned on its own output
    b_field,     \* the field map handed to hmi_b2ptr
    b_incl,      \* the inclination map handed to hmi_b2ptr
    b_azim,      \* the azimuth map handed to hmi_b2ptr
    bptr_ret,    \* <<>> or <<map_bp, map_bt, map_br>>: what hmi_b2ptr returned
    gxbox,       \* the GxBox object: its fields, as a record
    gx_request,  \* the last request made of the GxBox, and whether it raised
    box,         \* a Box object on its own: its fields, as a record
    box_out,     \* the last value read off the Box: [op, args, raised, ret]
    viewer,      \* the MagFieldViewer object: its fields and its widgets' texts
    viewer_out,  \* the last call made on the viewer and what it did
    gui,         \* the PyAmppGUI widgets get_command reads
    command      \* the last command the GUI built, and what running it gave

disambig_vars == <<az_map, dis_map, method_arg, az_orig, dis_orig, ret1, ret1_orig, ret2>>
b2ptr_vars == <<b_field, b_incl, b_azim, bptr_ret>>
gxbox_vars == <<gxbox, gx_request>>
box_vars == <<box, box_out>>
ui_vars == <<viewer, viewer_out, gui, command>>
vars == <<pc, disambig_vars, b2ptr_vars, gxbox_vars, box_vars, ui_vars>>

(***************************************************************************)
(* Bounds of the inputs.                                                   *)
(***************************************************************************)
MaxDim == 2        \* grids have 1..MaxDim rows and 1..MaxDim columns
MaxAzIdx == 9      \* azimuths start at 45 * i degrees, i in -MaxAzIdx..MaxAzIdx
MaxCode == 7       \* codes start between -MinCode and MaxCode
MinCode == 2
CodeDen == 2       \* codes are multiples of 1 / CodeDen
MaxMethod == 3     \* method indices -1..MaxMethod, and the omitted argument
MaxField == 2      \* field strengths start between 1 and MaxField
MaxTurns == 3      \* azimuths and longitudes are 90 * j degrees, j in 0..MaxTurns
FilePix == 2       \* the downloaded images are rows of FilePix pixels
MaxFileTurn == 1   \* the azimuth image starts at 90 * j degrees, j in 0..MaxFileTurn
MaxPix == 4        \* a box has 0..MaxPix pixels along each axis
PadDen == 4        \* pad_frac is a multiple of 1 / PadDen
MaxPad == 2        \* pad_frac is between -1 / PadDen and MaxPad / PadDen

Shapes == (1..MaxDim) \X (1..MaxDim)
Pixels(shape) == shape[1] * shape[2]

\* A grid whose pixel i (row-major, from 1) holds base + (i - 1) * stride.
Ramp(shape, base, stride, meta) ==
    [shape |-> shape,
     data  |-> [i \in 1..Pixels(shape) |-> base + (i - 1) * stride],
     meta  |-> meta]

AzimuthInputs ==
    { Ramp(s, 45 * i, st, "azimuth") :
        s \in Shapes, i \in -MaxAzIdx..MaxAzIdx, st \in {0, 90} }

DisambigInputs ==
    { Ramp(s, n, st, "disambig") :
        s \in Shapes, n \in (-MinCode * CodeDen)..(MaxCode * CodeDen), st \in {0, CodeDen} }

MethodInputs == {<<>>} \cup { <<m>> : m \in -1..MaxMethod }

(***************************************************************************)
(* boxutils.hmi_disambig                                                   *)
(***************************************************************************)

\* azimuth.shape != disambig.shape (numpy compares the shape tuples)
shape_mismatch_sizeonly(azimuth_map, disambig_map) ==
    Pixels(azimuth_map.shape) # Pixels(disambig_map.shape)

shape_mismatch(azimuth_map, disambig_map) ==
    azimuth_map.shape # disambig_map.shape

\* disambig.astype(int) of the code n / CodeDen: numpy's cast of a float to int
\* drops the fraction, i.e. rounds toward zero.
astype_int_floor(n) == n \div CodeDen

astype_int(n) ==
    IF n >= 0 THEN n \div CodeDen ELSE -((-n) \div CodeDen)

\* method=2 when omitted; "if method < 0 or method > 2: method = 2"
valid_method_unclamped(method) ==
    IF method = <<>> THEN 2 ELSE IF method[1] < 0 THEN 0 ELSE method[1]

valid_method(method) ==
    IF method = <<>> THEN 2
    ELSE IF method[1] < 0 \/ method[1] > 2 THEN 2 ELSE method[1]

\* disambig_corr = disambig // (2 ** method); index = disambig_corr % 2 != 0
flip_index_nextbit(disambig, method) ==
    ((disambig \div (2 ^ (method + 1))) % 2) # 0

flip_index(disambig, method) ==
    ((disambig \div (2 ^ method)) % 2) # 0

\* azimuth[index] += 180
flip(azimuth, index) ==
    IF index THEN azimuth + 180 ELSE azimuth

\* azimuth % 360: Python's remainder takes the sign of the divisor
mod360_once(azimuth) ==
    IF azimuth >= 360 THEN azimuth - 360 ELSE IF azimuth < 0 THEN azimuth + 360 ELSE azimuth

mod360_truncated(azimuth) ==
    IF azimuth >= 0 THEN azimuth % 360 ELSE -((-azimuth) % 360)

mod360(azimuth) == azimuth % 360

\* The call: what it raises or returns, and the azimuth map object as the call
\* leaves it ("azimuth = azimuth_map.data" is the map's own array, and
\* "azimuth[index] += 180" writes into it; "azimuth % 360" is a new array).
hmi_disambig(azimuth_map, disambig_map, method) ==
    IF shape_mismatch(azimuth_map, disambig_map)
    THEN [raised |-> TRUE, azimuth_map |-> azimuth_map, ret |-> <<>>]
    ELSE
        LET disambig == [i \in DOMAIN disambig_map.data |-> astype_int(disambig_map.data[i])]
            k        == valid_method(method)
            index    == [i \in DOMAIN disambig |-> flip_index(disambig[i], k)]
            azimuth  == [i \in DOMAIN azimuth_map.data |->
                            flip(azimuth_map.data[i], index[i])]
            reduced  == [i \in DOMAIN azimuth |-> mod360(azimuth[i])]
        IN  [raised      |-> FALSE,
             azimuth_map |-> [azimuth_map EXCEPT !.data = azimuth],
             ret         |-> << [shape |-> azimuth_map.shape,
                                 data  |-> reduced,
                                 meta  |-> azimuth_map.meta] >>]

(***************************************************************************)
(* The harness of hmi_disambig: one call on drawn inputs, then a second    *)
(* call on the map the first one returned, with the same code and method.  *)
(***************************************************************************)
InitDisambig ==
    /\ pc = "ready"
    /\ az_map \in AzimuthInputs
    /\ dis_map \in DisambigInputs
    /\ method_arg \in MethodInputs
    /\ az_orig = az_map
    /\ dis_orig = dis_map
    /\ ret1 = <<>>
    /\ ret1_orig = <<>>
    /\ ret2 = <<>>
    /\ b_field = <<>> /\ b_incl = <<>> /\ b_azim = <<>> /\ bptr_ret = <<>>
    /\ viewer = <<>> /\ viewer_out = <<>> /\ gui = <<>> /\ command = <<>>
    /\ gxbox = <<>> /\ gx_request = <<>>
    /\ box = <<>> /\ box_out = <<>>

CallDisambig ==
    /\ pc = "ready"
    /\ LET r == hmi_disambig(az_map, dis_map, method_arg)
       IN  /\ pc' = IF r.raised THEN "raised" ELSE "returned"
           /\ az_map' = r.azimuth_map
           /\ ret1' = r.ret
           /\ ret1_orig' = r.ret
    /\ UNCHANGED <<dis_map, method_arg, az_orig, dis_orig, ret2, b2ptr_vars, gxbox_vars, box_vars, ui_vars>>

CallDisambigAgain ==
    /\ pc = "returned"
    /\ LET r == hmi_disambig(ret1[1], dis_map, method_arg)
       IN  /\ pc' = "returned2"
           /\ ret1' = <<r.azimuth_map>>
           /\ ret2' = r.ret
    /\ UNCHANGED <<az_map, dis_map, method_arg, az_orig, dis_orig, ret1_orig, b2ptr_vars, gxbox_vars, box_vars, ui_vars>>

NextDisambig == CallDisambig \/ CallDisambigAgain

SpecDisambig == InitDisambig /\ [][NextDisambig]_vars

(***************************************************************************)
(* Properties of hmi_disambig, read off the harness.                       *)
(***************************************************************************)
Returned == pc \in {"returned", "returned2"}
PixelsOf(m) == DOMAIN m.data

\* The method the caller asked for, when it is one of the three documented ones.
DocumentedMethod == method_arg # <<>> /\ method_arg[1] \in 0..2

\* Bit k of the integer c, two's complement for a negative c.
BitSet(c, k) == (c % (2 ^ (k + 1))) >= 2 ^ k

IsIntegerCode(n) == n % CodeDen = 0

\* The integer nearest to n / CodeDen among those no farther from zero.
TruncTowardZero(n) ==
    CHOOSE t \in -(MinCode + MaxCode + MaxDim * MaxDim + 2)..(MinCode + MaxCode + MaxDim * MaxDim + 2) :
        /\ (n >= 0 => (t * CodeDen <= n /\ n < (t + 1) * CodeDen))
        /\ (n < 0  => (t * CodeDen >= n /\ n > (t - 1) * CodeDen))

Floor(n) ==
    CHOOSE t \in -(MinCode + MaxCode + MaxDim * MaxDim + 2)..(MinCode + MaxCode + MaxDim * MaxDim + 2) :
        t * CodeDen <= n /\ n < (t + 1) * CodeDen

\* What the first call returned at pixel i, against the azimuth it was given.
WasFlipped(i) == ret1_orig[1].data[i] = (az_orig.data[i] + 180) % 360
WasKept(i)    == ret1_orig[1].data[i] = az_orig.data[i] % 360

\* C1: for a method k in {0,1,2} and a pixel with an integer code, the returned
\* azimuth is (input + 180) mod 360 when bit k of the code is set and
\* (input) mod 360 otherwise; the spec's 2x2 scenario with method 0 returns
\* [[0,270],[180,90]].
C1_FlipRule ==
    /\ (Returned /\ DocumentedMethod) =>
          \A i \in PixelsOf(az_orig) :
              IsIntegerCode(dis_orig.data[i]) =>
                  IF BitSet(dis_orig.data[i] \div CodeDen, method_arg[1])
                  THEN WasFlipped(i) /\ ~WasKept(i)
                  ELSE WasKept(i) /\ ~WasFlipped(i)
    /\ (/\ pc # "ready"
        /\ az_orig.shape = <<2, 2>> /\ az_orig.data = <<0, 90, 180, 270>>
        /\ dis_orig.shape = <<2, 2>>
        /\ dis_orig.data = <<0, CodeDen, 2 * CodeDen, 3 * CodeDen>>
        /\ method_arg = <<0>>)
          => /\ pc # "raised"
             /\ ret1_orig[1].shape = <<2, 2>>
             /\ ret1_orig[1].data = <<0, 270, 180, 90>>

\* The spec's end-to-end scenario has been run.
C1_Witness ==
    /\ pc = "returned"
    /\ az_orig.data = <<0, 90, 180, 270>> /\ az_orig.shape = <<2, 2>>
    /\ dis_orig.data = <<0, CodeDen, 2 * CodeDen, 3 * CodeDen>>
    /\ method_arg = <<0>>
    /\ ret1[1].data = <<0, 270, 180, 90>>

C6_ShapeMismatchRaises ==
    /\ (pc # "ready" /\ az_orig.shape # dis_orig.shape) =>
          pc = "raised" /\ ret1 = <<>> /\ az_map = az_orig /\ dis_map = dis_orig
    /\ (pc # "ready" /\ az_orig.shape = dis_orig.shape) => pc # "raised"

\* The call raised on two grids of the same size and different shapes.
C6_Witness ==
    /\ pc = "raised"
    /\ az_orig.shape = <<1, 2>> /\ dis_orig.shape = <<2, 1>>

\* C7: a method index below 0 or above 2, and the omitted argument, give what
\* method 2 gives on the same inputs, an error included.
C7_InvalidMethodIsTwo ==
    (pc # "ready" /\ ~DocumentedMethod) =>
        LET two == hmi_disambig(az_orig, dis_orig, <<2>>)
        IN  /\ (pc = "raised") = two.raised
            /\ ret1_orig = two.ret
            /\ (pc = "raised") = (az_orig.shape # dis_orig.shape)

\* A call with method -1 returned a grid that method 0 and 1 would not have.
C7_Witness ==
    /\ pc = "returned"
    /\ method_arg = <<-1>>
    /\ ret1 # hmi_disambig(az_orig, dis_orig, <<0>>).ret
    /\ ret1 # hmi_disambig(az_orig, dis_orig, <<1>>).ret

\* C8 as stated: the flip decision for method k is bit k of floor(c), for
\* negative fractional codes too.
C8_FloorDecides ==
    (Returned /\ DocumentedMethod) =>
        \A i \in PixelsOf(az_orig) :
            WasFlipped(i) = BitSet(Floor(dis_orig.data[i]), method_arg[1])

\* C8 as amended: the code is cut toward zero (floor for c >= 0 only), and the
\* flip decision for method k is bit k of the cut code; it is never rounded to
\* the nearest integer.
C8_TruncDecides ==
    (Returned /\ DocumentedMethod) =>
        \A i \in PixelsOf(az_orig) :
            /\ WasFlipped(i) = BitSet(TruncTowardZero(dis_orig.data[i]), method_arg[1])
            /\ dis_orig.data[i] >= 0 =>
                  WasFlipped(i) = BitSet(Floor(dis_orig.data[i]), method_arg[1])

\* A negative fractional code whose floor has bit 0 set was not flipped.
C8_Witness ==
    /\ pc = "returned"
    /\ method_arg = <<0>>
    /\ \E i \in PixelsOf(az_orig) :
          /\ dis_orig.data[i] < 0 /\ ~IsIntegerCode(dis_orig.data[i])
          /\ BitSet(Floor(dis_orig.data[i]), 0)
          /\ WasKept(i)

\* C9 as stated (for hmi_disambig): after a call the azimuth and the
\* disambiguation grids passed in are pixel for pixel what they were.
C9_InputsUntouched ==
    pc # "ready" => az_map = az_orig /\ dis_map = dis_orig

\* C10: when the selected bit is zero in every pixel's (integer) code, the
\* call on the first output returns a grid equal to that output, and the
\* first output is the input reduced mod 360.
NoOpCode ==
    \A i \in PixelsOf(dis_orig) :
        ~BitSet(TruncTowardZero(dis_orig.data[i]), valid_method(method_arg))

sin_deg(d) ==
    LET r == d % 360
    IN  IF r = 90 THEN 1 ELSE IF r = 270 THEN -1 ELSE 0

cos_deg(d) == sin_deg(d + 90)

\* b_xi, b_eta, b_zeta of one pixel
local_field_cos_xi(field, gamma, psi) ==
    [b_xi   |-> -field * sin_deg(gamma) * cos_deg(psi),
     b_eta  |-> field * sin_deg(gamma) * sin_deg(psi),
     b_zeta |-> field * cos_deg(gamma)]

local_field(field, gamma, psi) ==
    [b_xi   |-> -field * sin_deg(gamma) * sin_deg(psi),
     b_eta  |-> field * sin_deg(gamma) * cos_deg(psi),
     b_zeta |-> field * cos_deg(gamma)]

\* k11..k33 of one pixel: b and p in degrees for the grid, phi and lambda_ in
\* degrees for the pixel
k_matrix(b, p, phi, lambda_) ==
    LET sinb == sin_deg(b)         cosb == cos_deg(b)
        sinp == sin_deg(p)         cosp == cos_deg(p)
        sinphi == sin_deg(phi)     cosphi == cos_deg(phi)
        sinlam == sin_deg(lambda_) coslam == cos_deg(lambda_)
    IN  [k11 |-> coslam * (sinb * sinp * cosphi + cosp * sinphi) - sinlam * cosb * sinp,
         k12 |-> - coslam * (sinb * cosp * cosphi - sinp * sinphi) + sinlam * cosb * cosp,
         k13 |-> coslam * cosb * cosphi + sinlam * sinb,
         k21 |-> sinlam * (sinb * sinp * cosphi + cosp * sinphi) + coslam * cosb * sinp,
         k22 |-> - sinlam * (sinb * cosp * cosphi - sinp * sinphi) - coslam * cosb * cosp,
         k23 |-> sinlam * cosb * cosphi - coslam * sinb,
         k31 |-> - sinb * sinp * sinphi + cosp * cosphi,
         k32 |-> sinb * cosp * sinphi + sinp * cosphi,
         k33 |-> - cosb * sinphi]

\* bptr[0], bptr[1], bptr[2] of one pixel
bptr_pixel_rows123(k, v) ==
    << k.k11 * v.b_xi + k.k12 * v.b_eta + k.k13 * v.b_zeta,
       k.k21 * v.b_xi + k.k22 * v.b_eta + k.k23 * v.b_zeta,
       k.k31 * v.b_xi + k.k32 * v.b_eta + k.k33 * v.b_zeta >>

bptr_pixel(k, v) ==
    << k.k31 * v.b_xi + k.k32 * v.b_eta + k.k33 * v.b_zeta,
       k.k21 * v.b_xi + k.k22 * v.b_eta + k.k23 * v.b_zeta,
       k.k11 * v.b_xi + k.k12 * v.b_eta + k.k13 * v.b_zeta >>

\* numpy broadcasting of a 2-D operand of shape `shape` against the field grid:
\* an axis of length 1 is stretched, any other length must be the field's.
broadcastable_to(shape, to_shape) ==
    \A d \in 1..2 : shape[d] = 1 \/ shape[d] = to_shape[d]

\* The element of the operand that pixel i (row-major) of the field grid meets.
broadcast_index(shape, to_shape, i) ==
    LET r == ((i - 1) \div to_shape[2]) + 1
        c == ((i - 1) % to_shape[2]) + 1
    IN  ((IF shape[1] = 1 THEN 1 ELSE r) - 1) * shape[2]
            + (IF shape[2] = 1 THEN 1 ELSE c)

\* The only failure of the call on 2-D grids: the products of lines 103-105
\* or the assignments into bptr[c, :, :] (shape (ny, nx) of the field grid)
\* cannot be broadcast.  Nothing compares the three shapes.
b2ptr_shape_error(map_field, map_inclination, map_azimuth) ==
    ~ ( /\ broadcastable_to(map_inclination.shape, map_field.shape)
        /\ broadcastable_to(map_azimuth.shape, map_field.shape) )

\* The call when it does not fail: <<map_bp, map_bt, map_br>>, each of the
\* field grid's shape and carrying the field map's header.
hmi_b2ptr(map_field, map_inclination, map_azimuth) ==
    LET b == map_field.meta.crlt_obs
        p == -map_field.meta.crota2
        bptr(i) == bptr_pixel(k_matrix(b, p, map_field.meta.lon[i], map_field.meta.lat[i]),
                              local_field(map_field.data[i],
                                          map_inclination.data[
                                              broadcast_index(map_inclination.shape,
                                                              map_field.shape, i)],
                                          map_azimuth.data[
                                              broadcast_index(map_azimuth.shape,
                                                              map_field.shape, i)]))
        component(c) == [shape |-> map_field.shape,
                         data  |-> [i \in DOMAIN map_field.data |-> bptr(i)[c]],
                         meta  |-> map_field.meta]
    IN  << component(1), component(2), component(3) >>

(***************************************************************************)
(* The harness of hmi_b2ptr: one call on drawn inputs.                     *)
(***************************************************************************)
Latitudes == {-90, 0, 90}
QuarterTurns == { 90 * j : j \in 0..MaxTurns }

FieldInputs ==
    { [shape |-> s,
       data  |-> [i \in 1..Pixels(s) |-> f + (i - 1)],
       meta  |-> [crlt_obs |-> b, crota2 |-> r,
                  lon |-> [i \in 1..Pixels(s) |-> lon + (i - 1) * st],
                  lat |-> [i \in 1..Pixels(s) |-> lat]]] :
        s \in Shapes, f \in 1..MaxField, b \in Latitudes, r \in QuarterTurns,
        lon \in QuarterTurns, st \in {0, 90}, lat \in Latitudes }

InclinationInputs(s) ==
    { Ramp(s, g, st, "inclination") : g \in {0, 90, 180}, st \in {0, 90} }

RotAzimuthInputs(s) ==
    { Ramp(s, a, 0, "azimuth") : a \in QuarterTurns }

InitB2ptr ==
    /\ pc = "ready"
    /\ b_field \in FieldInputs
    /\ b_incl \in InclinationInputs(b_field.shape)
    /\ b_azim \in RotAzimuthInputs(b_field.shape)
    /\ bptr_ret = <<>>
    /\ viewer = <<>> /\ viewer_out = <<>> /\ gui = <<>> /\ command = <<>>
    /\ az_map = <<>> /\ dis_map = <<>> /\ method_arg = <<>>
    /\ az_orig = <<>> /\ dis_orig = <<>>
    /\ ret1 = <<>> /\ ret1_orig = <<>> /\ ret2 = <<>>
    /\ gxbox = <<>> /\ gx_request = <<>>
    /\ box = <<>> /\ box_out = <<>>

CallB2ptr ==
    /\ pc = "ready"
    /\ IF b2ptr_shape_error(b_field, b_incl, b_azim)
       THEN pc' = "raised" /\ bptr_ret' = <<>>
       ELSE pc' = "returned" /\ bptr_ret' = hmi_b2ptr(b_field, b_incl, b_azim)
    /\ UNCHANGED <<b_field, b_incl, b_azim, disambig_vars, gxbox_vars, box_vars, ui_vars>>

NextB2ptr == CallB2ptr

SpecB2ptr == InitB2ptr /\ [][NextB2ptr]_vars

\* The same call on grids whose shapes are drawn independently, under the
\* identity geometry.
InitB2ptrShapes ==
    /\ pc = "ready"
    /\ b_field \in { m \in FieldInputs :
                        /\ m.meta.crlt_obs = 0 /\ m.meta.crota2 = 0
                        /\ \A i \in DOMAIN m.data : m.meta.lon[i] = 0 /\ m.meta.lat[i] = 0 }
    /\ b_incl \in UNION { InclinationInputs(s) : s \in Shapes }
    /\ b_azim \in UNION { RotAzimuthInputs(s) : s \in Shapes }
    /\ bptr_ret = <<>>
    /\ viewer = <<>> /\ viewer_out = <<>> /\ gui = <<>> /\ command = <<>>
    /\ az_map = <<>> /\ dis_map = <<>> /\ method_arg = <<>>
    /\ az_orig = <<>> /\ dis_orig = <<>>
    /\ ret1 = <<>> /\ ret1_orig = <<>> /\ ret2 = <<>>
    /\ gxbox = <<>> /\ gx_request = <<>>
    /\ box = <<>> /\ box_out = <<>>

SpecB2ptrShapes == InitB2ptrShapes /\ [][NextB2ptr]_vars

(***************************************************************************)
(* Properties of hmi_b2ptr, read off the harness.                          *)
(***************************************************************************)
\* The k matrix and the local field the call works with at pixel i.
KAt(i) == k_matrix(b_field.meta.crlt_obs, -b_field.meta.crota2,
                   b_field.meta.lon[i], b_field.meta.lat[i])
LocalAt(i) == local_field(b_field.data[i], b_incl.data[i], b_azim.data[i])
Row1(k, v) == k.k11 * v.b_xi + k.k12 * v.b_eta + k.k13 * v.b_zeta
Row2(k, v) == k.k21 * v.b_xi + k.k22 * v.b_eta + k.k23 * v.b_zeta
Row3(k, v) == k.k31 * v.b_xi + k.k32 * v.b_eta + k.k33 * v.b_zeta

\* C4 as stated: the first grid returned is the k1-row combination and the
\* third is the k3-row combination.
C4_FirstIsRow1 ==
    pc = "returned" =>
        \A i \in PixelsOf(b_field) :
            LET k == KAt(i)
                v == LocalAt(i)
            IN  /\ bptr_ret[1].data[i] = Row1(k, v)
                /\ bptr_ret[2].data[i] = Row2(k, v)
                /\ bptr_ret[3].data[i] = Row3(k, v)

\* C4 as amended: the first grid returned (b_phi) is the k3-row combination,
\* the second (b_theta) the k2-row combination and the third (b_r) the k1-row
\* combination.
C4_FirstIsRow3 ==
    pc = "returned" =>
        /\ Len(bptr_ret) = 3
        /\ \A i \in PixelsOf(b_field) :
            LET k == KAt(i)
                v == LocalAt(i)
            IN  /\ bptr_ret[1].data[i] = Row3(k, v)
                /\ bptr_ret[2].data[i] = Row2(k, v)
                /\ bptr_ret[3].data[i] = Row1(k, v)

\* A call under a tilted, rolled geometry returned a pixel whose k1-row and
\* k3-row combinations differ.
C4_Witness ==
    /\ pc = "returned"
    /\ b_field.meta.crlt_obs # 0 /\ b_field.meta.crota2 # 0
    /\ \E i \in PixelsOf(b_field) :
          LET k == KAt(i)
              v == LocalAt(i)
          IN  /\ Row1(k, v) # Row3(k, v)
              /\ bptr_ret[1].data[i] = Row3(k, v)

\* C5: with b = p = 0 and phi = lambda = 0 at a pixel, the grids returned hold
\* b_r = b_zeta, b_theta = -b_eta and b_phi = b_xi there.
IdentityAt(i) ==
    /\ b_field.meta.crlt_obs = 0 /\ b_field.meta.crota2 = 0
    /\ b_field.meta.lon[i] = 0 /\ b_field.meta.lat[i] = 0

C5_IdentityRotation ==
    pc = "returned" =>
        \A i \in PixelsOf(b_field) :
            IdentityAt(i) =>
                LET v == [b_xi   |-> -b_field.data[i] * sin_deg(b_incl.data[i]) * sin_deg(b_azim.data[i]),
                          b_eta  |-> b_field.data[i] * sin_deg(b_incl.data[i]) * cos_deg(b_azim.data[i]),
                          b_zeta |-> b_field.data[i] * cos_deg(b_incl.data[i])]
                IN  /\ bptr_ret[3].data[i] = v.b_zeta
                    /\ bptr_ret[2].data[i] = -v.b_eta
                    /\ bptr_ret[1].data[i] = v.b_xi

\* The identity rotation was applied to a pixel whose field lies along zeta
\* and to a pixel whose field lies along eta, which came back negated.
C5_Witness ==
    /\ pc = "returned"
    /\ \E i, j \in PixelsOf(b_field) :
          /\ IdentityAt(i) /\ LocalAt(i).b_zeta # 0
          /\ bptr_ret[3].data[i] = LocalAt(i).b_zeta
          /\ IdentityAt(j) /\ LocalAt(j).b_eta > 0
          /\ bptr_ret[2].data[j] < 0

\* C11 as stated: a call whose inclination or azimuth grid differs in shape
\* from the field grid ends in an error and returns no component grids.
C11_MismatchRaises ==
    (pc # "ready" /\ (b_incl.shape # b_field.shape \/ b_azim.shape # b_field.shape))
        => (pc = "raised" /\ bptr_ret = <<>>)

\* The value of a singleton set.  An intermediate result that is used more
\* than once is bound as the element of a singleton, which is evaluated once.
TheOne(S) == CHOOSE x \in S : TRUE

(***************************************************************************)
(* gxbox_factory.Box                                                       *)
(*                                                                         *)
(* box_dims is a vector of whole pixels.  Lengths (_res, _dims) are whole  *)
(* tenths of the length unit and coordinates are whole twentieths of it,   *)
(* so that the half length _dims[i] / 2 is the coordinate _dims[i] and a   *)
(* resolution of 0.1, 1 or 2 length units is the integer 1, 10 or 20.      *)
(* A point is <<x, y, z>>; an edge is a pair of points.                    *)
(***************************************************************************)
Resolutions == {1, 10, 20}

\* "self._dims[i] / 2 * [-1, 1]", as coordinates
half_span(dims_i) == << -dims_i, dims_i >>

\* itertools.product of three 2-element lists, the last varying fastest
product3(xs, ys, zs) ==
    [k \in 1..8 |-> << xs[((k - 1) \div 4) + 1],
                       ys[(((k - 1) \div 2) % 2) + 1],
                       zs[((k - 1) % 2) + 1] >>]

\* itertools.combinations(seq, 2), in its order
RECURSIVE combinations2(_)
combinations2(seq) ==
    IF Len(seq) < 2 THEN <<>>
    ELSE [j \in 1..(Len(seq) - 1) |-> <<seq[1], seq[j + 1]>>] \o combinations2(Tail(seq))

\* np.count_nonzero(u.Quantity(edge[0]) - u.Quantity(edge[1]))
count_nonzero_diff(edge) ==
    Cardinality({ d \in 1..3 : edge[1][d] - edge[2][d] # 0 })

is_edge(edge) == count_nonzero_diff(edge) = 1

\* Box._get_edge_coords: the edge's two corner offsets moved to box_center
get_edge_coords(edges, box_center) ==
    [e \in DOMAIN edges |->
        << [d \in 1..3 |-> box_center[d] + edges[e][1][d]],
           [d \in 1..3 |-> box_center[d] + edges[e][2][d]] >>]

min_of(S) == CHOOSE m \in S : \A x \in S : m <= x
max_of(S) == CHOOSE m \in S : \A x \in S : m >= x

is_bottom_one_end(edge, min_z) == edge[1][3] = min_z \/ edge[2][3] = min_z

is_bottom(edge, min_z) == edge[1][3] = min_z /\ edge[2][3] = min_z

\* Box._calculate_edge_types: <<_bottom_edges, _non_bottom_edges>>
calculate_edge_types(corners, edges, center) ==
    LET min_z == min_of({ corners[k][3] : k \in DOMAIN corners })
        bottom(e) == is_bottom(e, min_z)
        other(e) == ~ is_bottom(e, min_z)
    IN  << get_edge_coords(SelectSeq(edges, bottom), center),
           get_edge_coords(SelectSeq(edges, other), center) >>

\* "self.corners = list(itertools.product(...))"
box_corners_full(dims) ==
    product3(<< -2 * dims[1], 2 * dims[1] >>, << -2 * dims[2], 2 * dims[2] >>,
             << -2 * dims[3], 2 * dims[3] >>)

box_corners(dims) ==
    product3(half_span(dims[1]), half_span(dims[2]), half_span(dims[3]))

\* "self.edges = [edge for edge in itertools.combinations(self.corners, 2) if ...]"
box_edges(corners) == SelectSeq(combinations2(corners), is_edge)

\* A value that is None or a dict of arrays, as the slots of Box.b3d are.
\* comps maps each key of the dict to its array; an array is named by what
\* made it.
None_ == [none |-> TRUE, comps |-> <<>>]
Dict(comps) == [none |-> FALSE, comps |-> comps]

\* "self.b3dtype = ['pot', 'nlfff']"
B3DTYPE == <<"pot", "nlfff">>

\* Box.__init__; np.int_ leaves whole pixel counts as they are
Box(frame_obs, box_origin, box_center, box_dims, box_res) ==
    TheOne({
        [_frame_obs |-> frame_obs,
         _origin |-> box_origin,
         _center |-> box_center,
         _dims |-> dims,
         _res |-> box_res,
         _dims_pix |-> box_dims,
         corners |-> box_corners(dims),
         edges |-> box_edges(box_corners(dims)),
         _bottom_edges |-> types[1],
         _non_bottom_edges |-> types[2],
         b3dtype |-> B3DTYPE,
         b3d |-> [b3dtype \in {"pot", "nlfff"} |-> None_]] :
        dims \in { [d \in 1..3 |-> box_dims[d] * box_res] },
        types \in { calculate_edge_types(
                        box_corners([d \in 1..3 |-> box_dims[d] * box_res]),
                        box_edges(box_corners([d \in 1..3 |-> box_dims[d] * box_res])),
                        box_center) } })

\* Box.all_edges
all_edges(self) == self._bottom_edges \o self._non_bottom_edges

\* np.linspace(start, stop, num) for coordinates start and stop: the values
\* are vals[i] / den.  num = 1 gives the start alone, num = 0 nothing.
linspace_open(start, stop, num) ==
    [den |-> IF num = 0 THEN 1 ELSE num,
     vals |-> [i \in 1..num |-> start * num + (i - 1) * (stop - start)]]

linspace(start, stop, num) ==
    IF num <= 1
    THEN [den |-> 1, vals |-> [i \in 1..num |-> start]]
    ELSE [den |-> num - 1,
          vals |-> [i \in 1..num |-> start * (num - 1) + (i - 1) * (stop - start)]]

\* Box._get_grid_coords
get_grid_coords(self, grid_center) ==
    [x |-> linspace(grid_center[1] - self._dims[1], grid_center[1] + self._dims[1],
                    self._dims_pix[1]),
     y |-> linspace(grid_center[2] - self._dims[2], grid_center[2] + self._dims[2],
                    self._dims_pix[2]),
     z |-> linspace(grid_center[3] - self._dims[3], grid_center[3] + self._dims[3],
                    self._dims_pix[3]),
     frame |-> self._frame_obs]

\* Box.grid_coords
grid_coords(self) == get_grid_coords(self, self._center)

\* The pixel counts n <= 12 for which the binary64 quotient (n * 0.1) / 0.1 of
\* line 162 comes out just above n (3 * 0.1 / 0.1 is 3.0000000000000004); for
\* n <= 12 it is never below n, and with a resolution of 1 or 2 it is n.
InexactAbove == {3, 6, 12}

\* "int(np.ceil(s))" of s = dims / res, for dims = n * res
ceil_quotient(dims_i, res) ==
    LET n == dims_i \div res
    IN  IF res = 1 /\ n \in InexactAbove THEN n + 1 ELSE n

\* Box._get_bottom_cea_header: the header's pixel shape (rows, columns) and
\* the keys the method fixes
get_bottom_cea_header(self) ==
    [shape |-> << ceil_quotient(self._dims[2], self._res),
                  ceil_quotient(self._dims[1], self._res) >>,
     projection_code |-> "CEA",
     OBSRVTRY |-> "None"]

\* edge.transform_to(self._frame_obs): <<Tx, Ty>> of a point.  The conversion
\* is astropy's; the observer looks at the box from above or from the side.
Views == {"top", "side"}

transform_to(point, frame_obs) ==
    IF frame_obs = "top" THEN << point[1], point[2] >> ELSE << point[2], point[3] >>

\* The floor of the padding base, line 215
PAD_FLOOR == 20

max3(a, b, c) == max_of({a, b, c})

pad_no_floor(pad_frac, min_x, max_x, min_y, max_y) ==
    pad_frac * max_of({max_x - min_x, max_y - min_y})

pad_inward(pad_frac, min_x, max_x, min_y, max_y) ==
    - pad_frac * max3(max_x - min_x, max_y - min_y, PAD_FLOOR)

\* "_pad = pad_frac * np.max([max_x - min_x, max_y - min_y, 20])", times PadDen
pad(pad_frac, min_x, max_x, min_y, max_y) ==
    pad_frac * max3(max_x - min_x, max_y - min_y, PAD_FLOOR)

\* "min_x = np.min(xx)" ... "max_y = np.max(yy)" over the endpoints of edges
projected_extent(self, edges) ==
    TheOne({
        [min_x |-> min_of(xx), max_x |-> max_of(xx),
         min_y |-> min_of(yy), max_y |-> max_of(yy)] :
        xx \in { { transform_to(edges[e][k], self._frame_obs)[1] :
                     e \in DOMAIN edges, k \in 1..2 } },
        yy \in { { transform_to(edges[e][k], self._frame_obs)[2] :
                     e \in DOMAIN edges, k \in 1..2 } } })

\* Box._get_bounds_coords: [raised, ret].  pad_frac is a numerator over
\* PadDen and the coordinates returned are numerators over PadDen.  An empty
\* edge list fails at "xx[0][0]".
get_bounds_coords(self, edges, bltr, pad_frac) ==
    IF edges = <<>> THEN [raised |-> TRUE, ret |-> <<>>]
    ELSE TheOne({
        LET _pad == IF pad_frac > 0
                    THEN pad(pad_frac, m.min_x, m.max_x, m.min_y, m.max_y)
                    ELSE 0
            min_x == PadDen * m.min_x - _pad
            max_x == PadDen * m.max_x + _pad
            min_y == PadDen * m.min_y - _pad
            max_y == PadDen * m.max_y + _pad
        IN  [raised |-> FALSE,
             ret |-> IF bltr
                     THEN << << min_x, min_y >>, << max_x, max_y >> >>
                     ELSE [Tx |-> << min_x, max_x >>, Ty |-> << min_y, max_y >>]] :
        m \in { projected_extent(self, edges) } })

\* Box.box_origin
box_origin(self) == self._center

abs(a) == IF a < 0 THEN -a ELSE a

\* np.allclose(a, b) with numpy's rtol = 1e-5 and atol = 1e-8:
\* |a - b| <= atol + rtol * |b|.  For whole coordinates that is
\* |a - b| <= floor(|b| / 100000).
allclose(a, b) == abs(a - b) <= abs(b) \div 100000

\* The test of box_view_up on an edge: x and z of its two points
view_up_test_xy(edge) ==
    allclose(edge[1][1], edge[2][1]) /\ allclose(edge[1][2], edge[2][2])

view_up_test(edge) ==
    allclose(edge[1][1], edge[2][1]) /\ allclose(edge[1][3], edge[2][3])

\* The test of box_norm_direction on an edge: x and y of its two points
norm_direction_test(edge) ==
    allclose(edge[1][1], edge[2][1]) /\ allclose(edge[1][2], edge[2][2])

\* "for edge in edges: if test(edge): return edge" and "return None", given
\* the indices of the edges that pass the test: <<edge>> or <<>>
first_edge(edges, passing) ==
    IF passing = {} THEN <<>> ELSE << edges[min_of(passing)] >>

\* Box.box_view_up, Box.box_norm_direction
box_view_up(self) ==
    first_edge(self._bottom_edges,
               { i \in 1..Len(self._bottom_edges) : view_up_test(self._bottom_edges[i]) })
box_norm_direction(self) ==
    first_edge(self._non_bottom_edges,
               { i \in 1..Len(self._non_bottom_edges) :
                    norm_direction_test(self._non_bottom_edges[i]) })

\* Box.bounds_coords_bl_tr, Box.bounds_coords, Box.bottom_bounds_coords
bounds_coords_bl_tr(self, pad_frac) == get_bounds_coords(self, all_edges(self), TRUE, pad_frac)
bounds_coords(self) == get_bounds_coords(self, all_edges(self), FALSE, 0)
bottom_bounds_coords(self) == get_bounds_coords(self, self._bottom_edges, FALSE, 0)

(***************************************************************************)
(* A Box on its own: constructed from drawn arguments, then read.          *)
(***************************************************************************)
\* The box's center: at the frame's origin, or far from it along x.
Centers == { <<0, 0, 0>>, <<400000, 10, 50>> }
PadFracs == -1..MaxPad

InitBox ==
    /\ pc = "box"
    /\ \E frame_obs \in Views, box_center \in Centers,
          box_dims \in [1..3 -> 0..MaxPix], box_res \in Resolutions :
          box = Box(frame_obs, [box_center EXCEPT ![3] = @ - box_dims[3] * box_res],
                    box_center, box_dims, box_res)
    /\ box_out = <<>>
    /\ az_map = <<>> /\ dis_map = <<>> /\ method_arg = <<>>
    /\ az_orig = <<>> /\ dis_orig = <<>>
    /\ ret1 = <<>> /\ ret1_orig = <<>> /\ ret2 = <<>>
    /\ b_field = <<>> /\ b_incl = <<>> /\ b_azim = <<>> /\ bptr_ret = <<>>
    /\ viewer = <<>> /\ viewer_out = <<>> /\ gui = <<>> /\ command = <<>>
    /\ gxbox = <<>> /\ gx_request = <<>>

\* _get_bounds_coords on the edge lists its callers pass: all_edges or
\* bottom_edges
GetBoundsCoords ==
    /\ pc = "box"
    /\ \E which \in {"all_edges", "bottom_edges"}, bltr \in BOOLEAN, pad_frac \in PadFracs :
          \E r \in { get_bounds_coords(box,
                                       IF which = "all_edges" THEN all_edges(box)
                                       ELSE box._bottom_edges,
                                       bltr, pad_frac) } :
              box_out' = [op |-> "_get_bounds_coords",
                          args |-> <<which, bltr, pad_frac>>,
                          raised |-> r.raised, ret |-> r.ret]
    /\ UNCHANGED <<pc, box, disambig_vars, b2ptr_vars, gxbox_vars, ui_vars>>

GridCoords ==
    /\ pc = "box"
    /\ box_out' = [op |-> "grid_coords", args |-> <<>>, raised |-> FALSE,
                   ret |-> grid_coords(box)]
    /\ UNCHANGED <<pc, box, disambig_vars, b2ptr_vars, gxbox_vars, ui_vars>>

BottomCeaHeader ==
    /\ pc = "box"
    /\ box_out' = [op |-> "bottom_cea_header", args |-> <<>>, raised |-> FALSE,
                   ret |-> get_bottom_cea_header(box)]
    /\ UNCHANGED <<pc, box, disambig_vars, b2ptr_vars, gxbox_vars, ui_vars>>

BoxOrigin ==
    /\ pc = "box"
    /\ box_out' = [op |-> "box_origin", args |-> <<>>, raised |-> FALSE,
                   ret |-> box_origin(box)]
    /\ UNCHANGED <<pc, box, disambig_vars, b2ptr_vars, gxbox_vars, ui_vars>>

BoxViewUp ==
    /\ pc = "box"
    /\ box_out' = [op |-> "box_view_up", args |-> <<>>, raised |-> FALSE,
                   ret |-> box_view_up(box)]
    /\ UNCHANGED <<pc, box, disambig_vars, b2ptr_vars, gxbox_vars, ui_vars>>

BoxNormDirection ==
    /\ pc = "box"
    /\ box_out' = [op |-> "box_norm_direction", args |-> <<>>, raised |-> FALSE,
                   ret |-> box_norm_direction(box)]
    /\ UNCHANGED <<pc, box, disambig_vars, b2ptr_vars, gxbox_vars, ui_vars>>

NextBox ==
    \/ GetBoundsCoords \/ GridCoords \/ BottomCeaHeader
    \/ BoxOrigin \/ BoxViewUp \/ BoxNormDirection

SpecBox == InitBox /\ [][NextBox]_vars

(***************************************************************************)
(* Properties of the Box, read off a Box on its own.                       *)
(***************************************************************************)
\* C12 as stated: every Box has 8 corners, 12 edges, 4 bottom edges and 8
\* non-bottom edges, boxes with a 0-pixel or 1-pixel axis included.
C12_EdgeCounts ==
    pc = "box" =>
        /\ Len(box.corners) = 8
        /\ Len(box.edges) = 12
        /\ Len(box._bottom_edges) = 4
        /\ Len(box._non_bottom_edges) = 8

\* How often a value occurs in a sequence.
Count(seq, v) == Cardinality({ i \in DOMAIN seq : seq[i] = v })

\* The edges of the box as points: each pair of corners moved to the center.
EdgesAtCenter == get_edge_coords(box.edges, box._center)

\* The lowest z of the corners, as a coordinate.
MinCornerZ ==
    box._center[3] + (CHOOSE z \in { box.corners[k][3] : k \in 1..8 } :
                         \A k \in 1..8 : z <= box.corners[k][3])

\* C14: an edge is a bottom edge iff both its endpoints are at the lowest z
\* of the corners, every edge is in exactly one of the two lists, and
\* all_edges is the bottom edges followed by the others, each edge as often
\* as the box has it.
C14_EdgePartition ==
    pc = "box" =>
        /\ \A i \in DOMAIN EdgesAtCenter :
              LET e == EdgesAtCenter[i]
              IN  /\ Count(box._bottom_edges, e) > 0
                        <=> (e[1][3] = MinCornerZ /\ e[2][3] = MinCornerZ)
                  /\ Count(box._bottom_edges, e) > 0
                        <=> Count(box._non_bottom_edges, e) = 0
                  /\ Count(all_edges(box), e) = Count(EdgesAtCenter, e)
        /\ all_edges(box) = box._bottom_edges \o box._non_bottom_edges
        /\ Len(all_edges(box)) = Len(box.edges)

\* A box away from the frame's origin with four bottom edges and eight others.
C14_Witness ==
    /\ pc = "box"
    /\ box._center # <<0, 0, 0>>
    /\ Len(box._bottom_edges) = 4 /\ Len(box._non_bottom_edges) = 8
    /\ \E i \in 1..8 : box._non_bottom_edges[i][1][3] = MinCornerZ

\* A length of so many length units, as a coordinate.
Units(n) == 20 * n

Signs == {-1, 1}

\* C15: the corners are the 8 sign combinations of half the physical
\* dimensions (the coordinate _dims[d] is the length _dims[d] / 2); a box of
\* (4, 4, 4) pixels at resolution 1 has the sign combinations of (2, 2, 2).
C15_CornersAreSignCombinations ==
    pc = "box" =>
        /\ Len(box.corners) = 8
        /\ { box.corners[k] : k \in 1..8 }
              = { << sx * box._dims_pix[1] * box._res,
                     sy * box._dims_pix[2] * box._res,
                     sz * box._dims_pix[3] * box._res >> : sx \in Signs, sy \in Signs, sz \in Signs }
        /\ (box._dims_pix = <<4, 4, 4>> /\ box._res = 10) =>
              { box.corners[k] : k \in 1..8 }
                  = { << sx * Units(2), sy * Units(2), sz * Units(2) >> :
                        sx \in Signs, sy \in Signs, sz \in Signs }

\* The box of (4, 4, 4) pixels at resolution 1, with eight distinct corners.
C15_Witness ==
    /\ pc = "box"
    /\ box._dims_pix = <<4, 4, 4>> /\ box._res = 10
    /\ Cardinality({ box.corners[k] : k \in 1..8 }) = 8
    /\ << -Units(2), Units(2), -Units(2) >> \in { box.corners[k] : k \in 1..8 }

\* The last read was _get_bounds_coords and it returned.
BoundsRead ==
    /\ pc = "box" /\ box_out # <<>>
    /\ box_out.op = "_get_bounds_coords" /\ ~ box_out.raised

\* The edge list that read was given, bltr and pad_frac.
BoundsEdges ==
    IF box_out.args[1] = "all_edges" THEN all_edges(box) ELSE box._bottom_edges
BoundsBltr == box_out.args[2]
BoundsPadFrac == box_out.args[3]

\* The rectangle a result describes, from either of its two forms.
Rect(ret, bltr) ==
    IF bltr
    THEN [min_x |-> ret[1][1], min_y |-> ret[1][2], max_x |-> ret[2][1], max_y |-> ret[2][2]]
    ELSE [min_x |-> ret.Tx[1], min_y |-> ret.Ty[1], max_x |-> ret.Tx[2], max_y |-> ret.Ty[2]]

\* C16: for p > 0 the rectangle returned with pad_frac = 0 lies within the
\* rectangle returned with pad_frac = p.
C16_PaddingOnlyGrows ==
    (BoundsRead /\ BoundsPadFrac > 0) =>
        LET padded == Rect(box_out.ret, BoundsBltr)
            plain  == Rect(get_bounds_coords(box, BoundsEdges, BoundsBltr, 0).ret, BoundsBltr)
        IN  /\ padded.min_x <= plain.min_x /\ padded.min_y <= plain.min_y
            /\ padded.max_x >= plain.max_x /\ padded.max_y >= plain.max_y

\* A padded read of a box wider than the floor: every side lies strictly
\* outside the unpadded rectangle.
C16_Witness ==
    /\ BoundsRead /\ BoundsPadFrac > 0
    /\ LET padded == Rect(box_out.ret, BoundsBltr)
           plain  == Rect(get_bounds_coords(box, BoundsEdges, BoundsBltr, 0).ret, BoundsBltr)
       IN  /\ plain.max_x - plain.min_x > PadDen * PAD_FLOOR
           /\ padded.min_x < plain.min_x /\ padded.max_y > plain.max_y

\* The projected endpoints of the edge list of the last read.
Endpoints ==
    { transform_to(BoundsEdges[e][k], box._frame_obs) : e \in DOMAIN BoundsEdges, k \in 1..2 }

\* m is the least (sense = 1) or greatest (sense = -1) of the values
Extreme(m, values, sense) ==
    m \in values /\ \A v \in values : sense * m <= sense * v

\* C17: without padding the bounds are the least and greatest Tx and Ty of
\* the endpoints; with pad_frac > 0 every side is moved outward by
\* pad_frac * max(width, height, 20); both forms of the result describe the
\* same rectangle.  (Coordinates of the result are numerators over PadDen.)
C17_BoundsComputation ==
    BoundsRead =>
        \E min_x, max_x \in { pt[1] : pt \in Endpoints },
           min_y, max_y \in { pt[2] : pt \in Endpoints } :
            /\ Extreme(min_x, { pt[1] : pt \in Endpoints }, 1)
            /\ Extreme(max_x, { pt[1] : pt \in Endpoints }, -1)
            /\ Extreme(min_y, { pt[2] : pt \in Endpoints }, 1)
            /\ Extreme(max_y, { pt[2] : pt \in Endpoints }, -1)
            /\ LET base == IF max_x - min_x >= max_y - min_y /\ max_x - min_x >= PAD_FLOOR
                           THEN max_x - min_x
                           ELSE IF max_y - min_y >= PAD_FLOOR THEN max_y - min_y
                           ELSE PAD_FLOOR
                   moved == IF BoundsPadFrac > 0 THEN BoundsPadFrac * base ELSE 0
                   r == Rect(box_out.ret, BoundsBltr)
               IN  /\ r.min_x = PadDen * min_x - moved
                   /\ r.max_x = PadDen * max_x + moved
                   /\ r.min_y = PadDen * min_y - moved
                   /\ r.max_y = PadDen * max_y + moved
                   /\ Rect(get_bounds_coords(box, BoundsEdges, ~ BoundsBltr,
                                             BoundsPadFrac).ret, ~ BoundsBltr) = r

\* A padded read of a box whose edges all project onto one point: every side
\* is 20 * pad_frac away from it.
C17_Witness ==
    /\ BoundsRead /\ BoundsPadFrac > 0
    /\ Cardinality(Endpoints) = 1
    /\ LET r == Rect(box_out.ret, BoundsBltr)
       IN  /\ r.max_x - r.min_x = 2 * BoundsPadFrac * PAD_FLOOR
           /\ r.max_y - r.min_y = 2 * BoundsPadFrac * PAD_FLOOR

\* The last read was grid_coords.
GridRead == pc = "box" /\ box_out # <<>> /\ box_out.op = "grid_coords"

\* The grid of axis d in the last read.
AxisGrid(d) ==
    CASE d = 1 -> box_out.ret.x [] d = 2 -> box_out.ret.y [] d = 3 -> box_out.ret.z

StrictlyIncreasing(seq) == \A i, j \in DOMAIN seq : i < j => seq[i] < seq[j]

\* C18 as stated: every axis has dims_pixels[axis] strictly increasing values,
\* the first center - dims_physical / 2 and the last center + dims_physical / 2,
\* axes of 1 pixel included.
C18_GridSpansBox ==
    GridRead =>
        \A d \in 1..3 :
            LET g == AxisGrid(d)
                n == box._dims_pix[d]
            IN  /\ Len(g.vals) = n
                /\ StrictlyIncreasing(g.vals)
                /\ n >= 1 => /\ g.vals[1] = (box._center[d] - box._dims[d]) * g.den
                             /\ g.vals[n] = (box._center[d] + box._dims[d]) * g.den

\* C18 as amended: every axis has dims_pixels[axis] strictly increasing
\* values starting at center - dims_physical / 2; with 2 pixels or more the
\* last is center + dims_physical / 2, with 1 pixel the only value is
\* center - dims_physical / 2, and with 0 pixels there is none.
C18_GridSpansBoxFromTwoPixels ==
    GridRead =>
        \A d \in 1..3 :
            LET g == AxisGrid(d)
                n == box._dims_pix[d]
            IN  /\ Len(g.vals) = n
                /\ g.den > 0
                /\ StrictlyIncreasing(g.vals)
                /\ n >= 1 => g.vals[1] = (box._center[d] - box._dims[d]) * g.den
                /\ n >= 2 => g.vals[n] = (box._center[d] + box._dims[d]) * g.den
                /\ n = 1 => g.vals[n] # (box._center[d] + box._dims[d]) * g.den

\* A grid was read off a box with a 1-pixel axis and an axis of 3 pixels or
\* more, whose middle value lies strictly inside the box.
C18_Witness ==
    /\ GridRead
    /\ \E d, e \in 1..3 :
          /\ box._dims_pix[d] = 1 /\ Len(AxisGrid(d).vals) = 1
          /\ box._dims_pix[e] >= 3
          /\ AxisGrid(e).vals[2] > (box._center[e] - box._dims[e]) * AxisGrid(e).den
          /\ AxisGrid(e).vals[box._dims_pix[e]]
                = (box._center[e] + box._dims[e]) * AxisGrid(e).den

\* C20 as stated: the pixel shape of bottom_cea_header is
\* [dims_pixels.y, dims_pixels.x] for whole dims_pixels.
C20_HeaderShapeIsPixels ==
    (pc = "box" /\ box_out # <<>> /\ box_out.op = "bottom_cea_header") =>
        box_out.ret.shape = << box._dims_pix[2], box._dims_pix[1] >>

\* The last read was of box_view_up, of box_norm_direction, of box_origin.
ViewUpRead == pc = "box" /\ box_out # <<>> /\ box_out.op = "box_view_up"
NormDirectionRead == pc = "box" /\ box_out # <<>> /\ box_out.op = "box_norm_direction"
OriginRead == pc = "box" /\ box_out # <<>> /\ box_out.op = "box_origin"

InSeq(seq, v) == \E i \in DOMAIN seq : seq[i] = v

\* a and b differ by no more than 1e-5 of |b|.
Within(a, b) == 100000 * abs(a - b) <= abs(b)

\* Equal, and equal within the tolerance, as tests of axis d of an edge.
SameOn(edge, d) == edge[1][d] = edge[2][d]
CloseOn(edge, d) == Within(edge[1][d], edge[2][d])

AllPositive == \A d \in 1..3 : box._dims[d] > 0

C24_OriginIsConstructorOrigin ==
    OriginRead =>
        /\ box_out.ret = box._origin
        /\ box._dims[3] > 0 => box_out.ret # box._center

(***************************************************************************)
(* gxbox_factory.GxBox: the map cache and the two displayed maps.          *)
(*                                                                         *)
(* The object is the record self.  sdofitsfiles maps a name to the image   *)
(* the downloader stored, sdomaps is the cache, fov_coords the pixel range *)
(* <<first, last>> the field of view cuts out of an image.                 *)
(***************************************************************************)
HMI_B_SEGMENTS == <<"field", "inclination", "azimuth", "disambig">>
HMI_B_PRODUCTS == <<"bp", "bt", "br">>

Range(seq) == { seq[i] : i \in DOMAIN seq }

\* d[k] = v on a dict
Put(d, k, v) == [x \in DOMAIN d \cup {k} |-> IF x = k THEN v ELSE d[x]]

\* GenericMap.submap(bottom_left, top_right=...): the pixels of the field of
\* view, each with its own coordinates.
submap(m, fov_coords) ==
    [shape |-> <<1, fov_coords[2] - fov_coords[1] + 1>>,
     data  |-> SubSeq(m.data, fov_coords[1], fov_coords[2]),
     meta  |-> [m.meta EXCEPT !.lon = SubSeq(m.meta.lon, fov_coords[1], fov_coords[2]),
                              !.lat = SubSeq(m.meta.lat, fov_coords[1], fov_coords[2])]]

\* GenericMap.reproject_to(header): the map resampled onto the header's grid,
\* whose shape it takes; the resampling itself is sunpy's and is left symbolic.
reproject_to(m, header) == [of |-> m, shape |-> header.shape]

\* GxBox.avaliable_maps
avaliable_maps(self) ==
    IF \A key \in Range(HMI_B_SEGMENTS) : key \in DOMAIN self.sdofitsfiles
    THEN DOMAIN self.sdofitsfiles \cup Range(HMI_B_PRODUCTS)
    ELSE DOMAIN self.sdofitsfiles

\* GxBox._load_hmi_b_seg_maps: [raised, self, ret]
load_hmi_b_seg_maps(self, mapname, fov_coords) ==
    IF mapname \notin Range(HMI_B_SEGMENTS)
    THEN [raised |-> TRUE, self |-> self, ret |-> <<>>]
    ELSE IF mapname \in DOMAIN self.sdomaps
    THEN [raised |-> FALSE, self |-> self, ret |-> <<self.sdomaps[mapname]>>]
    ELSE TheOne({
            [raised |-> FALSE,
             self   |-> [self EXCEPT !.sdomaps = Put(with_dis, mapname, loaded_map)],
             ret    |-> <<loaded_map>>] :
            with_dis \in
                { IF mapname = "azimuth" /\ "disambig" \notin DOMAIN self.sdomaps
                  THEN Put(self.sdomaps, "disambig",
                           submap(self.sdofitsfiles["disambig"], fov_coords))
                  ELSE self.sdomaps },
            loaded_map \in
                { IF mapname = "azimuth"
                  THEN hmi_disambig(
                           submap(self.sdofitsfiles[mapname], fov_coords),
                           IF "disambig" \in DOMAIN self.sdomaps
                           THEN self.sdomaps["disambig"]
                           ELSE submap(self.sdofitsfiles["disambig"], fov_coords),
                           <<>>).ret[1]
                  ELSE submap(self.sdofitsfiles[mapname], fov_coords) } })

\* "for key in HMI_B_SEGMENTS: if key not in self.sdomaps.keys():
\*      self.sdomaps[key] = self._load_hmi_b_seg_maps(key, fov_coords)"
RECURSIVE load_missing_segments(_, _, _)
load_missing_segments(self, keys, fov_coords) ==
    IF keys = <<>> THEN self
    ELSE IF Head(keys) \in DOMAIN self.sdomaps
    THEN load_missing_segments(self, Tail(keys), fov_coords)
    ELSE TheOne({
            load_missing_segments(
                [r.self EXCEPT !.sdomaps = Put(r.self.sdomaps, Head(keys), r.ret[1])],
                Tail(keys), fov_coords) :
            r \in { load_hmi_b_seg_maps(self, Head(keys), fov_coords) } })

\* The end of loadmap, "# Load general maps": reached by every name that is
\* not a product, a segment included.
load_general(self, mapname, fov_coords) ==
    TheOne({
        [raised |-> FALSE,
         self   |-> [self EXCEPT !.sdomaps = Put(self.sdomaps, mapname, loaded)],
         ret    |-> <<loaded>>] :
        loaded \in { submap(self.sdofitsfiles[mapname], fov_coords) } })

\* "map_bp, map_bt, map_br = hmi_b2ptr(...)" keeping only the product asked for
store_products_requested_only(self, mapname) ==
    TheOne({
        [raised |-> FALSE,
         self   |-> [self EXCEPT !.sdomaps =
                        Put(self.sdomaps, mapname,
                            bptr[CASE mapname = "bp" -> 1
                                   [] mapname = "bt" -> 2
                                   [] mapname = "br" -> 3]),
                                 !.hmi_b2ptr_calls = @ + 1],
         ret    |-> << bptr[CASE mapname = "bp" -> 1
                              [] mapname = "bt" -> 2
                              [] mapname = "br" -> 3] >>] :
        bptr \in { hmi_b2ptr(self.sdomaps["field"], self.sdomaps["inclination"],
                             self.sdomaps["azimuth"]) } })

\* "map_bp, map_bt, map_br = hmi_b2ptr(...)" and the three assignments;
\* hmi_b2ptr_calls counts the calls of hmi_b2ptr this object has made
store_products(self, mapname) ==
    TheOne({
        [raised |-> FALSE,
         self   |-> [self EXCEPT !.sdomaps =
                        Put(Put(Put(self.sdomaps, "bp", bptr[1]), "bt", bptr[2]),
                            "br", bptr[3]),
                                 !.hmi_b2ptr_calls = @ + 1],
         ret    |-> << bptr[CASE mapname = "bp" -> 1
                              [] mapname = "bt" -> 2
                              [] mapname = "br" -> 3] >>] :
        bptr \in { hmi_b2ptr(self.sdomaps["field"], self.sdomaps["inclination"],
                             self.sdomaps["azimuth"]) } })

\* GxBox.loadmap with fov_coords=None: [raised, self, ret]
loadmap(self, mapname) ==
    IF mapname \notin avaliable_maps(self)
    THEN [raised |-> TRUE, self |-> self, ret |-> <<>>]
    ELSE IF mapname \in DOMAIN self.sdomaps
    THEN [raised |-> FALSE, self |-> self, ret |-> <<self.sdomaps[mapname]>>]
    ELSE IF mapname \in Range(HMI_B_SEGMENTS)
    THEN load_general(load_hmi_b_seg_maps(self, mapname, self.fov_coords).self,
                      mapname, self.fov_coords)
    ELSE IF mapname \in Range(HMI_B_PRODUCTS)
    THEN store_products(load_missing_segments(self, HMI_B_SEGMENTS, self.fov_coords),
                        mapname)
    ELSE load_general(self, mapname, self.fov_coords)

\* "self.sdomaps[map_name] if map_name in self.sdomaps.keys()
\*  else self.loadmap(map_name)"
cached_or_loaded(self, map_name) ==
    IF map_name \in DOMAIN self.sdomaps
    THEN [raised |-> FALSE, self |-> self, ret |-> <<self.sdomaps[map_name]>>]
    ELSE loadmap(self, map_name)

\* GxBox.update_bottom_map: [raised, self]
update_bottom_map(self, map_name) ==
    TheOne({
        IF r.raised THEN [raised |-> TRUE, self |-> r.self]
        ELSE [raised |-> FALSE,
              self   |-> [r.self EXCEPT
                             !.map_bottom = reproject_to(r.ret[1], self.bottom_wcs_header),
                             !.box._dims_pix =
                                 [@ EXCEPT ![1] = reproject_to(r.ret[1],
                                                               self.bottom_wcs_header).shape[2],
                                           ![2] = reproject_to(r.ret[1],
                                                               self.bottom_wcs_header).shape[1]]]] :
        r \in { cached_or_loaded(self, map_name) } })

\* GxBox.update_context_map: [raised, self]
update_context_map(self, map_name) ==
    TheOne({
        IF r.raised THEN [raised |-> TRUE, self |-> r.self]
        ELSE [raised |-> FALSE,
              self   |-> [r.self EXCEPT
                             !.map_context =
                                 [of |-> r.ret[1],
                                  rotated |-> map_name \in Range(HMI_B_SEGMENTS)
                                                 \cup Range(HMI_B_PRODUCTS)
                                                 \cup {"magnetogram", "continuum"}]]] :
        r \in { cached_or_loaded(self, map_name) } })

(***************************************************************************)
(* The GxBox after construction, and the requests made of it.              *)
(***************************************************************************)
FileShape == <<1, FilePix>>

\* An image as downloaded: crlt_obs and crota2 of its header, and the
\* longitude and latitude of each of its pixels.
FileMap(base, stride) ==
    [shape |-> FileShape,
     data  |-> [i \in 1..FilePix |-> base + (i - 1) * stride],
     meta  |-> [crlt_obs |-> 0, crota2 |-> 180,
                lon |-> [i \in 1..FilePix |-> 90 * (i - 1)],
                lat |-> [i \in 1..FilePix |-> 0]]]

DownloadedFiles ==
    { [x \in {"171", "magnetogram"} \cup Range(HMI_B_SEGMENTS) |->
          CASE x = "171"         -> FileMap(171, 1)
            [] x = "magnetogram" -> FileMap(-1, 2)
            [] x = "field"       -> FileMap(1, 1)
            [] x = "inclination" -> FileMap(90, 0)
            [] x = "azimuth"     -> FileMap(90 * j, 90)
            [] x = "disambig"    -> FileMap(c * CodeDen, CodeDen)] :
        j \in 0..MaxFileTurn, c \in {0} \cup (MaxCode - 4)..(MaxCode - 3) }

FovInputs == { <<lo, hi>> : lo \in 1..FilePix, hi \in 1..FilePix } \ 
             { f \in (1..FilePix) \X (1..FilePix) : f[1] > f[2] }

\* The box asked for: box_dims in pixels and box_res, one with a resolution
\* that binary64 holds exactly and one with 0.1.
GxBoxInputs ==
    { [box_dims |-> <<2, 3, 2>>, box_res |-> 10],
      [box_dims |-> <<3, 2, 2>>, box_res |-> 1] }

\* GxBox.__init__ from "self.sdomaps = {}" on
store_loaded(r, mapname) ==
    [r.self EXCEPT !.sdomaps = Put(r.self.sdomaps, mapname, r.ret[1])]

\* box_orig in the heliocentric frame it is the observer of
BoxOrig == <<0, 0, 100>>

\* "box_center = SkyCoord(x=box_center.x, y=box_center.y,
\*                         z=box_center.z + box_dimensions[2] / 2, ...)"
gx_box_center_full(box_orig, box_dims, box_res) ==
    << box_orig[1], box_orig[2], box_orig[3] + 2 * box_dims[3] * box_res >>

gx_box_center(box_orig, box_dims, box_res) ==
    << box_orig[1], box_orig[2], box_orig[3] + box_dims[3] * box_res >>

\* "self.box = Box(...)" with box_center half the box's height above
\* box_orig, and "self.bottom_wcs_header = self.box.bottom_cea_header"
with_box(files, fov, box_orig, box_dims, box_res) ==
    TheOne({
        [sdofitsfiles |-> files,
         fov_coords |-> fov,
         box_origin |-> box_orig,
         hmi_b2ptr_calls |-> 0,
         pot_res |-> None_,
         mapBottomSelector |-> "field",
         b3dModelSelector |-> B3DTYPE[1],
         visualizer |-> <<>>,
         box_dims |-> box_dims,
         box_res |-> box_res,
         box |-> b,
         bottom_wcs_header |-> get_bottom_cea_header(b),
         sdomaps |-> << >>,
         map_context |-> << >>,
         map_bottom |-> << >>] :
        b \in { Box("top", box_orig, gx_box_center(box_orig, box_dims, box_res),
                    box_dims, box_res) } })

Constructed(files, fov, box_orig, box_dims, box_res) ==
    TheOne({
        [self2 EXCEPT !.map_bottom = reproject_to(self2.sdomaps["field"],
                                                  self2.bottom_wcs_header)] :
        self2 \in {
            TheOne({ store_loaded(r2, "field") :
                     r2 \in { loadmap(
                         TheOne({ [store_loaded(r1, "171") EXCEPT
                                      !.map_context = [of |-> r1.ret[1], rotated |-> FALSE]] :
                                  r1 \in { loadmap(with_box(files, fov, box_orig, box_dims, box_res),
                                                   "171") } }),
                         "field") } }) } })

\* The names a request may carry: every available map, and one that was not
\* downloaded.
RequestNames ==
    {"171", "magnetogram", "94"} \cup Range(HMI_B_SEGMENTS) \cup Range(HMI_B_PRODUCTS)

Init ==
    /\ pc = "gxbox"
    /\ \E files \in DownloadedFiles, fov \in FovInputs, b \in GxBoxInputs :
          gxbox = Constructed(files, fov, BoxOrig, b.box_dims, b.box_res)
    /\ gx_request = <<>>
    /\ box = <<>> /\ box_out = <<>>
    /\ az_map = <<>> /\ dis_map = <<>> /\ method_arg = <<>>
    /\ az_orig = <<>> /\ dis_orig = <<>>
    /\ ret1 = <<>> /\ ret1_orig = <<>> /\ ret2 = <<>>
    /\ b_field = <<>> /\ b_incl = <<>> /\ b_azim = <<>> /\ bptr_ret = <<>>
    /\ viewer = <<>> /\ viewer_out = <<>> /\ gui = <<>> /\ command = <<>>

LoadMap ==
    /\ pc = "gxbox"
    /\ \E mapname \in RequestNames :
          \E r \in { loadmap(gxbox, mapname) } :
              /\ gxbox' = r.self
              /\ gx_request' = <<"loadmap", r.raised>>
    /\ UNCHANGED <<pc, disambig_vars, b2ptr_vars, box_vars, ui_vars>>

UpdateBottomMap ==
    /\ pc = "gxbox"
    /\ \E map_name \in RequestNames :
          \E r \in { update_bottom_map(gxbox, map_name) } :
              /\ gxbox' = r.self
              /\ gx_request' = <<"update_bottom_map", r.raised>>
    /\ UNCHANGED <<pc, disambig_vars, b2ptr_vars, box_vars, ui_vars>>

UpdateContextMap ==
    /\ pc = "gxbox"
    /\ \E map_name \in RequestNames :
          \E r \in { update_context_map(gxbox, map_name) } :
              /\ gxbox' = r.self
              /\ gx_request' = <<"update_context_map", r.raised>>
    /\ UNCHANGED <<pc, disambig_vars, b2ptr_vars, box_vars, ui_vars>>

Next == LoadMap \/ UpdateBottomMap \/ UpdateContextMap

Spec == Init /\ [][Next]_vars

(***************************************************************************)
(* Properties of the GxBox map cache.                                      *)
(***************************************************************************)
\* The azimuth of the field of view as downloaded, and as hmi_disambig
\* resolves it with the disambiguation image of the same field of view.
RawAzimuth == submap(gxbox.sdofitsfiles["azimuth"], gxbox.fov_coords)
DisambiguatedAzimuth ==
    hmi_disambig(RawAzimuth, submap(gxbox.sdofitsfiles["disambig"], gxbox.fov_coords),
                 <<>>).ret[1]

\* C3 as stated: the cached azimuth, when present, is the disambiguated one,
\* and the cached products were computed from it.
C3_CachedAzimuthIsDisambiguated ==
    /\ "azimuth" \in DOMAIN gxbox.sdomaps =>
          gxbox.sdomaps["azimuth"] = DisambiguatedAzimuth
    /\ "br" \in DOMAIN gxbox.sdomaps =>
          <<gxbox.sdomaps["bp"], gxbox.sdomaps["bt"], gxbox.sdomaps["br"]>>
              = hmi_b2ptr(gxbox.sdomaps["field"], gxbox.sdomaps["inclination"],
                          DisambiguatedAzimuth)

\* The Box as GxBox.__init__ constructed it from box_dims and box_res.
BoxAsConstructed ==
    Box("top", gxbox.box_origin,
        gx_box_center(gxbox.box_origin, gxbox.box_dims, gxbox.box_res),
        gxbox.box_dims, gxbox.box_res)

\* C13 as stated: dims_physical = dims_pixels * resolution on every axis,
\* after construction and after any sequence of update_bottom_map calls.
C13_DimsArePixelsTimesRes ==
    \A d \in 1..3 : gxbox.box._dims[d] = gxbox.box._dims_pix[d] * gxbox.box._res

\* C19 as stated: in every state the GxBox operations reach, grid_coords,
\* bounds_coords, bottom_cea_header, bottom_edges and non_bottom_edges read
\* as they did right after construction.
C19_DerivedValuesFixed ==
    /\ grid_coords(gxbox.box) = grid_coords(BoxAsConstructed)
    /\ bounds_coords(gxbox.box) = bounds_coords(BoxAsConstructed)
    /\ get_bottom_cea_header(gxbox.box) = get_bottom_cea_header(BoxAsConstructed)
    /\ gxbox.box._bottom_edges = BoxAsConstructed._bottom_edges
    /\ gxbox.box._non_bottom_edges = BoxAsConstructed._non_bottom_edges

\* The endpoints of the edges in a list.
EndpointsOf(edges) == { edges[i][k] : i \in DOMAIN edges, k \in 1..2 }

\* A point is the center moved by one of the box's corners.
CenterPlusCorner(b, p) ==
    \E k \in DOMAIN b.corners :
        \A d \in 1..3 : p[d] = b._center[d] + b.corners[k][d]

\* C25: the box of a GxBox has its center half its height above the origin
\* along z and at the origin in x and y, every endpoint of its edges is the
\* center plus a corner, and every endpoint of a bottom edge is at the
\* origin's z.
C25_CenterAboveOrigin ==
    pc = "gxbox" =>
        /\ gxbox.box._origin = gxbox.box_origin
        /\ gxbox.box._center[1] = gxbox.box_origin[1]
        /\ gxbox.box._center[2] = gxbox.box_origin[2]
        \* coordinates count twentieths and _dims tenths: _dims[3] is half the height
        /\ gxbox.box._center[3] = gxbox.box_origin[3] + gxbox.box._dims[3]
        /\ \A p \in EndpointsOf(all_edges(gxbox.box)) : CenterPlusCorner(gxbox.box, p)
        /\ \A p \in EndpointsOf(gxbox.box._bottom_edges) : p[3] = gxbox.box_origin[3]

\* A GxBox whose box has a height: four bottom edges at the origin's z and
\* the center above them.
C25_Witness ==
    /\ pc = "gxbox"
    /\ gxbox.box._dims[3] > 0
    /\ gxbox.box._center[3] > gxbox.box_origin[3]
    /\ Len(gxbox.box._bottom_edges) = 4
    /\ \E p \in EndpointsOf(gxbox.box._non_bottom_edges) : p[3] > gxbox.box._center[3]

\* The products computed from the cached segments.
ProductsOfCache ==
    hmi_b2ptr(gxbox.sdomaps["field"], gxbox.sdomaps["inclination"],
              gxbox.sdomaps["azimuth"])

\* A cached name is served from the cache: loadmap returns the entry and
\* leaves the object as it is.
ServedFromCache(name) ==
    loadmap(gxbox, name)
        = [raised |-> FALSE, self |-> gxbox, ret |-> << gxbox.sdomaps[name] >>]

\* C28: once a name is in sdomaps its entry never changes and loadmap of it
\* returns that entry and leaves sdomaps as it is; as soon as one product is
\* in sdomaps, all three products and the four HMI B segments are, the
\* products being the three results of the one hmi_b2ptr call made.
C28_CacheIsStable ==
    /\ [](pc = "gxbox" =>
            /\ \A name \in DOMAIN gxbox.sdomaps : ServedFromCache(name)
            /\ gxbox.hmi_b2ptr_calls <= 1
            /\ (\E p \in Range(HMI_B_PRODUCTS) : p \in DOMAIN gxbox.sdomaps) =>
                  /\ Range(HMI_B_PRODUCTS) \cup Range(HMI_B_SEGMENTS)
                        \subseteq DOMAIN gxbox.sdomaps
                  /\ gxbox.hmi_b2ptr_calls = 1
                  /\ \A k \in 1..3 :
                        gxbox.sdomaps[HMI_B_PRODUCTS[k]] = ProductsOfCache[k]
            /\ gxbox.hmi_b2ptr_calls = 1 =>
                  \E p \in Range(HMI_B_PRODUCTS) : p \in DOMAIN gxbox.sdomaps)
    /\ [][pc = "gxbox" =>
            \A name \in DOMAIN gxbox.sdomaps :
                /\ name \in DOMAIN gxbox'.sdomaps
                /\ gxbox'.sdomaps[name] = gxbox.sdomaps[name]]_vars

\* loadmap of a product has returned: the products and the segments are
\* cached after one hmi_b2ptr call.
C28_Witness ==
    /\ pc = "gxbox"
    /\ gx_request = <<"loadmap", FALSE>>
    /\ "bt" \in DOMAIN gxbox.sdomaps
    /\ gxbox.hmi_b2ptr_calls = 1

(***************************************************************************)
(* gxbox_factory.GxBox: the field solutions kept in box.b3d.                *)
(*                                                                         *)
(* An array is [src, comp, bottom]: what made it, under which key, and      *)
(* whether its bottom layer has been overwritten with the boundary maps.   *)
(* The solvers of pyAMaFiL and the 3D viewer are outside this repository's *)
(* sources here; what they return is an array named after them.            *)
(***************************************************************************)
COMPONENTS == {"bx", "by", "bz"}

Array(src, comp) == [src |-> src, comp |-> comp, bottom |-> FALSE]

\* The dict a solver returns: "bx", "by", "bz" in its own axis order
SolverResult(src) == [c \in COMPONENTS |-> Array(src, c)]

\* "d['bx'] = res['by'].swapaxes(0, 1); d['by'] = res['bx'].swapaxes(0, 1);
\*  d['bz'] = res['bz'].swapaxes(0, 1)": views of the arrays of res
swapped_xy(res) ==
    [c \in COMPONENTS |->
        CASE c = "bx" -> res["by"] [] c = "by" -> res["bx"] [] c = "bz" -> res["bz"]]

\* "a[:, :, 0] = ..." on every array of a dict
bottom_replaced(comps) == [c \in DOMAIN comps |-> [comps[c] EXCEPT !.bottom = TRUE]]

\* A box file: its extension and the 'b3d' mapping it holds, every model kind
\* it has with the three components.
GxboxFiles ==
    { [ext |-> ext,
       b3d |-> [k \in kinds |-> Dict([c \in COMPONENTS |-> Array("file", c)])]] :
      ext \in {".gxbox", ".h5"}, kinds \in SUBSET Range(B3DTYPE) }

\* boxutils.read_b3d_h5: a dict with the groups of the file, and nothing else
read_b3d_h5(file) == file.b3d

load_h5(self, file) == [self EXCEPT !.box.b3d = read_b3d_h5(file)]

\* GxBox.load_gxbox
load_gxbox(self, boxfile) ==
    IF boxfile.ext = ".gxbox"
    THEN [self EXCEPT !.box.b3d =
             [b3dtype \in DOMAIN self.box.b3d \cup Range(self.box.b3dtype) |->
                 IF b3dtype \in Range(self.box.b3dtype)
                 THEN IF b3dtype \in DOMAIN boxfile.b3d THEN boxfile.b3d[b3dtype] ELSE None_
                 ELSE self.box.b3d[b3dtype]]]
    ELSE IF boxfile.ext = ".h5"
    THEN load_h5(self, boxfile)
    ELSE self

\* GxBox.box_view_up: [raised, ret].  Box.box_view_up is dereferenced as it
\* comes; the direction of the edge is left as the edge.
gx_box_view_up(self) ==
    IF box_view_up(self.box) = <<>>
    THEN [raised |-> TRUE, ret |-> <<>>]
    ELSE [raised |-> FALSE, ret |-> box_view_up(self.box)]

\* GxBox.calc_potential_field: [raised, self].  Moving the bottom selector
\* to 'br' runs its slot, update_bottom_map.
calc_potential_field(self) ==
    TheOne({
        IF r.raised THEN r
        ELSE [raised |-> FALSE,
              self   |-> [r.self EXCEPT
                             !.pot_res = Dict(SolverResult("LFFF_cube")),
                             !.box.b3d = Put(@, "pot",
                                             Dict(swapped_xy(SolverResult("LFFF_cube"))))]] :
        r \in { IF self.mapBottomSelector # "br"
                THEN IF "br" \notin avaliable_maps(self)
                     THEN [raised |-> TRUE, self |-> self]
                     ELSE update_bottom_map([self EXCEPT !.mapBottomSelector = "br"], "br")
                ELSE [raised |-> FALSE, self |-> self] } })

\* calc_nlfff from "bx_lff, by_lff, bz_lff = ..." on, self.box.b3d['pot']
\* being a dict: [raised, self]
RECURSIVE load_products(_, _)
load_products(self, names) ==
    IF names = <<>> THEN [raised |-> FALSE, self |-> self]
    ELSE TheOne({
            IF r.raised THEN [raised |-> TRUE, self |-> r.self]
            ELSE load_products(r.self, Tail(names)) :
            r \in { cached_or_loaded(self, Head(names)) } })

nlfff_from_potential(self) ==
    IF ~ (COMPONENTS \subseteq DOMAIN self.box.b3d["pot"].comps)
    THEN [raised |-> TRUE, self |-> self]
    ELSE TheOne({
            IF r.raised THEN r
            ELSE TheOne({
                    IF with_bottom.pot_res.none
                    THEN [raised |-> TRUE, self |-> with_bottom]
                    ELSE [raised |-> FALSE,
                          self   |-> [with_bottom EXCEPT
                                         !.box.b3d = Put(@, "nlfff",
                                             Dict(swapped_xy(SolverResult("NLFFF"))))]] :
                    with_bottom \in {
                        [r.self EXCEPT
                            !.box.b3d = Put(@, "pot",
                                            Dict(bottom_replaced(@["pot"].comps))),
                            !.pot_res =
                                IF ~ @.none /\ r.self.box.b3d["pot"].comps["bx"].src = "LFFF_cube"
                                THEN Dict(bottom_replaced(@.comps))
                                ELSE @] } }) :
            r \in { load_products(self, <<"br", "bt", "bp">>) } })

\* GxBox.calc_nlfff: [raised, self]
calc_nlfff(self) ==
    TheOne({
        IF "pot" \notin DOMAIN emptied.box.b3d
        THEN [raised |-> TRUE, self |-> emptied]
        ELSE IF emptied.box.b3d["pot"].none
        THEN TheOne({ IF r.raised THEN r ELSE nlfff_from_potential(r.self) :
                      r \in { calc_potential_field(emptied) } })
        ELSE nlfff_from_potential(emptied) :
        emptied \in { [self EXCEPT !.box.b3d = Put(@, "nlfff", Dict(<<>>))] } })

\* "self.visualizer = MagFieldViewer(self.box, ..., b3dtype=b3dtype)": the
\* viewer, holding the box as it is then
show_viewer(self, view_up, b3dtype) ==
    [raised |-> FALSE,
     self   |-> [self EXCEPT !.visualizer =
                    << [b3dtype |-> b3dtype, box_view_up |-> view_up,
                        b3d |-> self.box.b3d] >>]]

\* GxBox.visualize_3d_magnetic_field: [raised, self]
visualize_3d_magnetic_field(self) ==
    TheOne({
        IF view_up.raised THEN [raised |-> TRUE, self |-> self]
        ELSE IF b3dtype \notin DOMAIN self.box.b3d
        THEN [raised |-> TRUE, self |-> self]
        ELSE IF b3dtype = "nlfff" /\ ~ self.box.b3d["nlfff"].none
        THEN show_viewer(self, view_up.ret, b3dtype)
        ELSE IF b3dtype = "pot" /\ ~ self.box.b3d["pot"].none
        THEN show_viewer(self, view_up.ret, b3dtype)
        ELSE TheOne({ IF r.raised THEN r ELSE show_viewer(r.self, view_up.ret, b3dtype) :
                      r \in { IF b3dtype = "pot" THEN calc_potential_field(self)
                              ELSE calc_nlfff(self) } }) :
        view_up \in { gx_box_view_up(self) },
        b3dtype \in { self.b3dModelSelector } })

\* init_ui: "if self.external_box is not None: ... self.load_gxbox(...)";
\* external_box is <<>> or <<file>>
init_ui(self, external_box) ==
    IF external_box = <<>> THEN self ELSE load_gxbox(self, external_box[1])

\* The boxes asked for: one with three positive dimensions and one whose y
\* axis has no pixels.
SolveBoxInputs ==
    { [box_dims |-> <<2, 2, 2>>, box_res |-> 10],
      [box_dims |-> <<2, 0, 2>>, box_res |-> 10] }

InitSolve ==
    /\ pc = "solve"
    /\ \E b \in SolveBoxInputs, external_box \in {<<>>} \cup { <<f>> : f \in GxboxFiles } :
          gxbox = init_ui(Constructed(CHOOSE files \in DownloadedFiles : TRUE,
                                      <<1, FilePix>>, BoxOrig, b.box_dims, b.box_res),
                          external_box)
    /\ gx_request = <<>>
    /\ box = <<>> /\ box_out = <<>>
    /\ az_map = <<>> /\ dis_map = <<>> /\ method_arg = <<>>
    /\ az_orig = <<>> /\ dis_orig = <<>>
    /\ ret1 = <<>> /\ ret1_orig = <<>> /\ ret2 = <<>>
    /\ b_field = <<>> /\ b_incl = <<>> /\ b_azim = <<>> /\ bptr_ret = <<>>
    /\ viewer = <<>> /\ viewer_out = <<>> /\ gui = <<>> /\ command = <<>>

LoadGxbox ==
    /\ pc = "solve"
    /\ \E boxfile \in GxboxFiles :
          /\ gxbox' = load_gxbox(gxbox, boxfile)
          /\ gx_request' = <<"load_gxbox", FALSE>>
    /\ UNCHANGED <<pc, disambig_vars, b2ptr_vars, box_vars, ui_vars>>

\* The user picks a model kind; no slot is connected to this selector.
SelectB3dModel ==
    /\ pc = "solve"
    /\ \E b3dtype \in Range(gxbox.box.b3dtype) :
          gxbox' = [gxbox EXCEPT !.b3dModelSelector = b3dtype]
    /\ gx_request' = <<"b3dModelSelector", FALSE>>
    /\ UNCHANGED <<pc, disambig_vars, b2ptr_vars, box_vars, ui_vars>>

\* The user picks a bottom map; currentTextChanged runs update_bottom_map.
SelectBottomMap ==
    /\ pc = "solve"
    /\ \E map_name \in {"field", "br"} :
          /\ map_name # gxbox.mapBottomSelector
          /\ \E r \in { update_bottom_map([gxbox EXCEPT !.mapBottomSelector = map_name],
                                          map_name) } :
                /\ gxbox' = r.self
                /\ gx_request' = <<"mapBottomSelector", r.raised>>
    /\ UNCHANGED <<pc, disambig_vars, b2ptr_vars, box_vars, ui_vars>>

GxBoxViewUp ==
    /\ pc = "solve"
    /\ gx_request' = <<"box_view_up", gx_box_view_up(gxbox).raised>>
    /\ UNCHANGED <<pc, gxbox, disambig_vars, b2ptr_vars, box_vars, ui_vars>>

Visualize3dMagneticField ==
    /\ pc = "solve"
    /\ \E r \in { visualize_3d_magnetic_field(gxbox) } :
          /\ gxbox' = r.self
          /\ gx_request' = <<"visualize_3d_magnetic_field", r.raised>>
    /\ UNCHANGED <<pc, disambig_vars, b2ptr_vars, box_vars, ui_vars>>

NextSolve ==
    \/ LoadGxbox \/ SelectB3dModel \/ SelectBottomMap
    \/ GxBoxViewUp \/ Visualize3dMagneticField

SpecSolve == InitSolve /\ [][NextSolve]_vars

(***************************************************************************)
(* Properties of the field solutions.                                      *)
(***************************************************************************)
\* The last request, and whether it raised.
Requested(op) == pc = "solve" /\ gx_request # <<>> /\ gx_request[1] = op
Raised == gx_request[2]

\* C22 as stated: when Box.box_view_up finds no edge, GxBox.box_view_up and
\* GxBox.visualize_3d_magnetic_field complete without raising.
C22_AbsentEdgeHandled ==
    /\ (Requested("box_view_up") /\ box_view_up(gxbox.box) = <<>>) => ~ Raised
    /\ (Requested("visualize_3d_magnetic_field") /\ box_view_up(gxbox.box) = <<>>)
          => ~ Raised

\* C23 as stated: box.b3d has a key for every kind of box.b3dtype, after
\* load_gxbox of a .gxbox or .h5 file with any kinds in it as before, so
\* that reading b3d['pot'] or b3d['nlfff'] never meets a missing key.
C23_SlotForEveryKind ==
    pc = "solve" =>
        \A k \in Range(gxbox.box.b3dtype) : k \in DOMAIN gxbox.box.b3d

\* A slot is None or holds bx, by and bz.
NoneOrComplete(slot) == slot.none \/ COMPONENTS \subseteq DOMAIN slot.comps

\* C27 as stated: every slot of b3d is None or a mapping with bx, by and bz
\* in every state, and the viewer is never opened on a solution without them.
C27_SlotsNoneOrComplete ==
    pc = "solve" =>
        /\ \A k \in DOMAIN gxbox.box.b3d : NoneOrComplete(gxbox.box.b3d[k])
        /\ gxbox.visualizer # <<>> =>
              LET shown == gxbox.visualizer[1]
              IN  COMPONENTS \subseteq DOMAIN shown.b3d[shown.b3dtype].comps

(***************************************************************************)
(* magfield_viewer_bk.MagFieldViewer: the inputs of the 3D viewer.          *)
(*                                                                         *)
(* A Python number is [t, v]: its type and its value, whole numbers only.  *)
(* A QLineEdit is the string it shows.  The scene itself is pyvista's: of   *)
(* each actor the model keeps what the viewer last gave it.                *)
(***************************************************************************)
Float(n) == [t |-> "float", v |-> n]
PyInt(n) == [t |-> "int", v |-> n]

\* The numbers the texts of the model can spell.
Numbers == {-60000, -50000, -1000, -632, -135, 0, 1, 2, 10, 20, 25, 100, 150,
            1000, 1400, 2000, 50000, 60000}

\* str(x) of a Python number
str(x) == IF x.t = "int" THEN ToString(x.v) ELSE ToString(x.v) \o ".0"

\* float(text): <<>> where Python raises ValueError, <<the float>> otherwise
float(text) ==
    LET spelled == { n \in Numbers :
                        text \in { ToString(n), ToString(n) \o ".0", ToString(n) \o ".00" } }
    IN  IF spelled = {} THEN <<>> ELSE << Float(TheOne(spelled)) >>

\* The limits of the colour range in update_plot, -5e4 and 5e4.
CLIM_LIMIT == 50000

\* The most field lines update_plot accepts.
N_POINTS_MAX == 1000

\* "widget.setText(str(original_value)); return original_value"
revert_to(self, widget, original_value) ==
    [self |-> [self EXCEPT !.text[widget] = str(original_value)],
     ret  |-> original_value]

\* MagFieldViewer.validate_input: [self, ret].  paired_widget and
\* paired_type are <<>> when not given.
validate_input(self, widget, min_val, max_val, original_value, to_int, paired_widget, paired_type) ==
    IF float(self.text[widget]) = <<>>
    THEN revert_to(self, widget, original_value)
    ELSE TheOne({
        IF ~ (min_val.v <= value.v /\ value.v <= max_val.v)
        THEN revert_to(self, widget, IF value.v < min_val.v THEN min_val ELSE max_val)
        ELSE IF paired_widget # <<>> /\ float(self.text[paired_widget[1]]) = <<>>
        THEN revert_to(self, widget, original_value)
        ELSE IF /\ paired_widget # <<>>
                /\ \/ /\ paired_type = <<"vmin">>
                      /\ value.v >= float(self.text[paired_widget[1]])[1].v
                   \/ /\ paired_type = <<"vmax">>
                      /\ value.v <= float(self.text[paired_widget[1]])[1].v
        THEN revert_to(self, widget, original_value)
        ELSE [self |-> [self EXCEPT !.previous_valid_values[widget] =
                                        IF to_int THEN PyInt(value.v) ELSE value],
              ret  |-> IF to_int THEN PyInt(value.v) ELSE value] :
        value \in { float(self.text[widget])[1] } })

\* The validate_input calls of update_plot, in its order: the widget, the
\* limits, to_int, and the paired widget and type.
first_inputs(self) ==
    << [widget |-> "center_x_input", min_val |-> self.grid_min[1],
        max_val |-> self.grid_max[1], to_int |-> FALSE, paired |-> <<>>, type |-> <<>>],
       [widget |-> "center_y_input", min_val |-> self.grid_min[2],
        max_val |-> self.grid_max[2], to_int |-> FALSE, paired |-> <<>>, type |-> <<>>],
       [widget |-> "center_z_input", min_val |-> PyInt(0),
        max_val |-> self.grid_max[3], to_int |-> FALSE, paired |-> <<>>, type |-> <<>>],
       [widget |-> "radius_input", min_val |-> PyInt(0),
        max_val |-> self.min_ptp, to_int |-> FALSE, paired |-> <<>>, type |-> <<>>],
       [widget |-> "n_points_input", min_val |-> PyInt(1),
        max_val |-> PyInt(N_POINTS_MAX), to_int |-> TRUE, paired |-> <<>>, type |-> <<>>] >>

slice_input(self) ==
    << [widget |-> "slice_z_input", min_val |-> PyInt(0),
        max_val |-> self.grid_max[3], to_int |-> FALSE, paired |-> <<>>, type |-> <<>>] >>

clim_inputs(self) ==
    << [widget |-> "vmin_input", min_val |-> Float(-CLIM_LIMIT),
        max_val |-> Float(CLIM_LIMIT), to_int |-> FALSE,
        paired |-> <<"vmax_input">>, type |-> <<"vmin">>],
       [widget |-> "vmax_input", min_val |-> Float(-CLIM_LIMIT),
        max_val |-> Float(CLIM_LIMIT), to_int |-> FALSE,
        paired |-> <<"vmin_input">>, type |-> <<"vmax">>] >>

\* A run of validate_input calls, each with
\* self.previous_valid_values[widget] as the original value:
\* [self, rets]
RECURSIVE validate_inputs(_, _)
validate_inputs(self, inputs) ==
    IF inputs = <<>> THEN [self |-> self, rets |-> <<>>]
    ELSE TheOne({
            TheOne({ [self |-> rest.self, rets |-> << r.ret >> \o rest.rets] :
                     rest \in { validate_inputs(r.self, Tail(inputs)) } }) :
            r \in { validate_input(self, Head(inputs).widget, Head(inputs).min_val,
                                   Head(inputs).max_val,
                                   self.previous_valid_values[Head(inputs).widget],
                                   Head(inputs).to_int, Head(inputs).paired,
                                   Head(inputs).type) } })

\* update_slice, update_streamlines, update_sphere_visibility and
\* update_plane_visibility: what the scene is given
update_slice(self, slice_z, scalar, vmin, vmax) ==
    [self EXCEPT !.bottom_slice_actor =
        << [slice_z |-> slice_z, scalar |-> scalar, clim |-> << vmin, vmax >>] >>,
                 !.update_slice_calls = @ + 1]

update_streamlines(self, center_x, center_y, center_z, radius, n_points) ==
    [self EXCEPT !.streamlines =
        << [center |-> << center_x, center_y, center_z >>, radius |-> radius,
            n_points |-> n_points] >>]

update_sphere_visibility(self, sphere_visible) ==
    IF sphere_visible
    THEN IF self.sphere_actor = <<>>
         THEN [self EXCEPT !.sphere_actor =
                  << [center |-> << float(self.text["center_x_input"])[1].v,
                                    float(self.text["center_y_input"])[1].v,
                                    float(self.text["center_z_input"])[1].v >>,
                      radius |-> float(self.text["radius_input"])[1].v,
                      on |-> TRUE] >>]
         ELSE [self EXCEPT !.sphere_actor[1].on = TRUE]
    ELSE IF self.sphere_actor # <<>>
         THEN [self EXCEPT !.sphere_actor[1].on = FALSE]
         ELSE self

update_plane_visibility(self, plane_visible) ==
    IF plane_visible
    THEN IF self.plane_actor = <<>>
         THEN [self EXCEPT !.plane_actor =
                  << [slice_z |-> float(self.text["slice_z_input"])[1].v, on |-> TRUE] >>]
         ELSE [self EXCEPT !.plane_actor[1].on = TRUE]
    ELSE IF self.plane_actor # <<>>
         THEN [self EXCEPT !.plane_actor[1].on = FALSE]
         ELSE self

\* The texts update_sphere reads are numbers.
sphere_texts_are_numbers(self) ==
    \A w \in {"center_x_input", "center_y_input", "center_z_input", "radius_input"} :
        float(self.text[w]) # <<>>

\* MagFieldViewer.update_plot, update_sphere and update_plane: [raised, self].
\* ignored_calls counts the update_plot calls that returned at "if
\* self.updating: return", update_slice_calls the calls of update_slice, both
\* since the last call from outside.
RECURSIVE update_plot(_), update_sphere(_), update_plane(_)
update_sphere(self) ==
    IF self.sphere_actor = <<>> THEN [raised |-> FALSE, self |-> self]
    ELSE IF ~ sphere_texts_are_numbers(self) THEN [raised |-> TRUE, self |-> self]
    ELSE update_plot([self EXCEPT
             !.sphere_actor[1].center = << float(self.text["center_x_input"])[1].v,
                                           float(self.text["center_y_input"])[1].v,
                                           float(self.text["center_z_input"])[1].v >>,
             !.sphere_actor[1].radius = float(self.text["radius_input"])[1].v])

update_plane(self) ==
    IF self.plane_actor = <<>> THEN [raised |-> FALSE, self |-> self]
    ELSE IF float(self.text["slice_z_input"]) = <<>> THEN [raised |-> TRUE, self |-> self]
    ELSE update_plot([self EXCEPT
             !.plane_actor[1].slice_z = float(self.text["slice_z_input"])[1].v])

\* update_plot from "scalar = self.scalar_selector.currentText()" on
apply_params(self, current_params) ==
    IF current_params = self.previous_params
    THEN [self EXCEPT !.updating = FALSE]
    ELSE TheOne({
            [s4 EXCEPT !.previous_params = current_params, !.updating = FALSE] :
            s4 \in {
              TheOne({
                IF current_params.plane_visible # self.previous_params.plane_visible
                THEN update_plane_visibility(s3, current_params.plane_visible)
                ELSE s3 :
                s3 \in {
                  TheOne({
                    IF current_params.sphere_visible # self.previous_params.sphere_visible
                    THEN update_sphere_visibility(s2, current_params.sphere_visible)
                    ELSE s2 :
                    s2 \in {
                      TheOne({
                        IF \E k \in {"center_x", "center_y", "center_z", "radius", "n_points"} :
                              current_params[k] # self.previous_params[k]
                        THEN update_streamlines(s1, current_params.center_x,
                                                current_params.center_y,
                                                current_params.center_z,
                                                current_params.radius,
                                                current_params.n_points)
                        ELSE s1 :
                        s1 \in {
                          IF \E k \in {"slice_z", "scalar", "vmin", "vmax"} :
                                current_params[k] # self.previous_params[k]
                          THEN update_slice(self, current_params.slice_z,
                                            current_params.scalar,
                                            current_params.vmin, current_params.vmax)
                          ELSE self } }) } }) } }) } })

update_plot(self) ==
    IF self.updating
    THEN [raised |-> FALSE, self |-> [self EXCEPT !.ignored_calls = @ + 1]]
    ELSE TheOne({
        TheOne({
            IF sphere.raised THEN sphere
            ELSE TheOne({
                TheOne({
                    IF plane.raised THEN plane
                    ELSE TheOne({
                        [raised |-> FALSE,
                         self |-> apply_params(
                            third.self,
                            [center_x |-> first.rets[1].v, center_y |-> first.rets[2].v,
                             center_z |-> first.rets[3].v, radius |-> first.rets[4].v,
                             slice_z |-> second.rets[1].v, n_points |-> first.rets[5].v,
                             vmin |-> third.rets[1].v, vmax |-> third.rets[2].v,
                             scalar |-> third.self.scalar_selector,
                             sphere_visible |-> third.self.sphere_visible,
                             plane_visible |-> third.self.plane_visible])] :
                        third \in { validate_inputs(plane.self, clim_inputs(plane.self)) } }) :
                    plane \in { update_plane(second.self) } }) :
                second \in { validate_inputs(sphere.self, slice_input(sphere.self)) } }) :
            sphere \in { update_sphere(first.self) } }) :
        first \in { validate_inputs([self EXCEPT !.updating = TRUE],
                                    first_inputs(self)) } })

\* boxutils.validate_number around a handler, given what the handler does
\* to self: the handler runs when the widget's text is a number, and a
\* warning is shown otherwise
validate_number(self, widget, handled) ==
    IF float(self.text[widget]) = <<>>
    THEN [raised |-> FALSE, self |-> self]
    ELSE handled

\* A call from outside starts the two counts again.
from_outside(self) ==
    [self EXCEPT !.ignored_calls = 0, !.update_slice_calls = 0]

(***************************************************************************)
(* The viewer after its construction on a grid from -10 to 10 in x and y   *)
(* and 0 to 20 in z, and what the user does to it.                         *)
(***************************************************************************)
Widgets ==
    {"center_x_input", "center_y_input", "center_z_input", "radius_input",
     "n_points_input", "slice_z_input", "vmin_input", "vmax_input"}

\* What the user types into the colour range.
TypedClim == {"abc", "-60000", "60000"}

\* The viewer as __init__ leaves it: show_plot has run update_plot once and
\* the plane has been switched off.
ViewerConstructed ==
    [updating |-> FALSE,
     grid_min |-> << Float(-10), Float(-10), Float(0) >>,
     grid_max |-> << Float(10), Float(10), Float(20) >>,
     min_ptp |-> Float(20),
     text |-> [w \in Widgets |->
                 CASE w = "center_x_input" -> "0.00"
                   [] w = "center_y_input" -> "0.00"
                   [] w = "center_z_input" -> "2.00"
                   [] w = "radius_input"   -> "1.00"
                   [] w = "n_points_input" -> "10"
                   [] w = "slice_z_input"  -> "0.00"
                   [] w = "vmin_input"     -> "-1000"
                   [] w = "vmax_input"     -> "1000"],
     previous_valid_values |->
         [w \in Widgets |->
             CASE w = "center_z_input" -> Float(2)
               [] w = "radius_input"   -> Float(1)
               [] w = "n_points_input" -> PyInt(10)
               [] w = "vmin_input"     -> Float(-1000)
               [] w = "vmax_input"     -> Float(1000)
               [] OTHER                -> Float(0)],
     previous_params |->
         [center_x |-> 0, center_y |-> 0, center_z |-> 2, radius |-> 1,
          slice_z |-> 0, n_points |-> 10, vmin |-> -1000, vmax |-> 1000,
          scalar |-> "bz", sphere_visible |-> TRUE, plane_visible |-> FALSE],
     scalar_selector |-> "bz",
     sphere_visible |-> TRUE,
     plane_visible |-> FALSE,
     sphere_actor |-> << [center |-> <<0, 0, 2>>, radius |-> 1, on |-> TRUE] >>,
     plane_actor |-> << [slice_z |-> 0, on |-> FALSE] >>,
     bottom_slice_actor |->
         << [slice_z |-> 0, scalar |-> "bz", clim |-> << -1000, 1000 >>] >>,
     streamlines |->
         << [center |-> <<0, 0, 2>>, radius |-> 1, n_points |-> 10] >>,
     ignored_calls |-> 0,
     update_slice_calls |-> 0]

InitViewer ==
    /\ pc = "viewer"
    /\ viewer = ViewerConstructed
    /\ viewer_out = <<>>
    /\ gui = <<>> /\ command = <<>>
    /\ gxbox = <<>> /\ gx_request = <<>>
    /\ box = <<>> /\ box_out = <<>>
    /\ az_map = <<>> /\ dis_map = <<>> /\ method_arg = <<>>
    /\ az_orig = <<>> /\ dis_orig = <<>>
    /\ ret1 = <<>> /\ ret1_orig = <<>> /\ ret2 = <<>>
    /\ b_field = <<>> /\ b_incl = <<>> /\ b_azim = <<>> /\ bptr_ret = <<>>

\* The user types into the vmin or the vmax input; nothing runs until Return
\* is pressed.
EditText ==
    /\ pc = "viewer"
    /\ \E widget \in {"vmin_input", "vmax_input"}, typed \in TypedClim :
          /\ typed # viewer.text[widget]
          /\ viewer' = [viewer EXCEPT !.text[widget] = typed]
          /\ viewer_out' = [op |-> "edit", raised |-> FALSE]
    /\ UNCHANGED <<pc, disambig_vars, b2ptr_vars, gxbox_vars, box_vars, gui, command>>

\* on_slice_z_input_returnPressed, on_vmin_input_returnPressed,
\* on_vmax_input_returnPressed
ReturnPressedUpdatePlot ==
    /\ pc = "viewer"
    /\ \E widget \in {"slice_z_input", "vmin_input", "vmax_input"} :
          \E r \in { validate_number(from_outside(viewer), widget,
                                     update_plot(from_outside(viewer))) } :
              /\ viewer' = r.self
              /\ viewer_out' = [op |-> "returnPressed", raised |-> r.raised]
    /\ UNCHANGED <<pc, disambig_vars, b2ptr_vars, gxbox_vars, box_vars, gui, command>>

\* on_center_x_input_returnPressed ... on_n_points_input_returnPressed
ReturnPressedUpdateSphere ==
    /\ pc = "viewer"
    /\ \E widget \in {"center_x_input", "center_y_input", "center_z_input",
                      "radius_input", "n_points_input"} :
          \E r \in { validate_number(from_outside(viewer), widget,
                                     update_sphere(from_outside(viewer))) } :
              /\ viewer' = r.self
              /\ viewer_out' = [op |-> "returnPressed, update_sphere", raised |-> r.raised]
    /\ UNCHANGED <<pc, disambig_vars, b2ptr_vars, gxbox_vars, box_vars, gui, command>>

\* toggle_sphere_visibility and toggle_plane_visibility
ToggleVisibility ==
    /\ pc = "viewer"
    /\ \E which \in {"sphere", "plane"} :
          \E r \in { update_plot(
                       IF which = "sphere"
                       THEN [from_outside(viewer) EXCEPT !.sphere_visible = ~ @]
                       ELSE [from_outside(viewer) EXCEPT !.plane_visible = ~ @]) } :
              /\ viewer' = r.self
              /\ viewer_out' = [op |-> "toggle", raised |-> r.raised]
    /\ UNCHANGED <<pc, disambig_vars, b2ptr_vars, gxbox_vars, box_vars, gui, command>>

NextViewer ==
    \/ EditText \/ ReturnPressedUpdatePlot \/ ReturnPressedUpdateSphere
    \/ ToggleVisibility

SpecViewer == InitViewer /\ [][NextViewer]_vars

(***************************************************************************)
(* validate_input on its own: the texts are drawn, then one of the calls   *)
(* update_plot makes is made.                                              *)
(***************************************************************************)
TypedNumbers == {"abc", "-60000", "-1000", "0", "1000", "60000"}
TypedCounts == {"abc", "0", "10", "2000"}

InitValidate ==
    /\ pc = "validate"
    /\ \E vmin \in TypedNumbers, vmax \in TypedNumbers, n_points \in TypedCounts :
          viewer = [ViewerConstructed EXCEPT !.text["vmin_input"] = vmin,
                                             !.text["vmax_input"] = vmax,
                                             !.text["n_points_input"] = n_points]
    /\ viewer_out = <<>>
    /\ gui = <<>> /\ command = <<>>
    /\ gxbox = <<>> /\ gx_request = <<>>
    /\ box = <<>> /\ box_out = <<>>
    /\ az_map = <<>> /\ dis_map = <<>> /\ method_arg = <<>>
    /\ az_orig = <<>> /\ dis_orig = <<>>
    /\ ret1 = <<>> /\ ret1_orig = <<>> /\ ret2 = <<>>
    /\ b_field = <<>> /\ b_incl = <<>> /\ b_azim = <<>> /\ bptr_ret = <<>>

\* One validate_input call with the arguments update_plot gives it;
\* viewer_out keeps what it was given and what it returned.
ValidateInput ==
    /\ pc = "validate"
    /\ \E c \in Range(first_inputs(viewer) \o clim_inputs(viewer)) :
          /\ c.widget \in {"n_points_input", "vmin_input", "vmax_input"}
          /\ \E r \in { validate_input(viewer, c.widget, c.min_val, c.max_val,
                                       viewer.previous_valid_values[c.widget],
                                       c.to_int, c.paired, c.type) } :
                /\ viewer' = r.self
                /\ viewer_out' =
                      [op |-> "validate_input", widget |-> c.widget,
                       text |-> viewer.text[c.widget],
                       min_val |-> c.min_val, max_val |-> c.max_val,
                       original_value |-> viewer.previous_valid_values[c.widget],
                       to_int |-> c.to_int, type |-> c.type,
                       paired_text |-> IF c.paired = <<>> THEN <<>>
                                       ELSE << viewer.text[c.paired[1]] >>,
                       ret |-> r.ret]
    /\ pc' = "validated"
    /\ UNCHANGED <<disambig_vars, b2ptr_vars, gxbox_vars, box_vars, gui, command>>

NextValidate == ValidateInput

SpecValidate == InitValidate /\ [][NextValidate]_vars

(***************************************************************************)
(* Properties of the viewer's inputs.                                      *)
(***************************************************************************)
\* The text given to the last validate_input call is not a number, is
\* outside [min_val, max_val], or breaks the order of vmin and vmax (a
\* paired text that is not a number counted as breaking it).
InvalidText ==
    \/ float(viewer_out.text) = <<>>
    \/ float(viewer_out.text)[1].v < viewer_out.min_val.v
    \/ float(viewer_out.text)[1].v > viewer_out.max_val.v
    \/ /\ viewer_out.paired_text # <<>>
       /\ \/ float(viewer_out.paired_text[1]) = <<>>
          \/ /\ viewer_out.type = <<"vmin">>
             /\ float(viewer_out.text)[1].v >= float(viewer_out.paired_text[1])[1].v
          \/ /\ viewer_out.type = <<"vmax">>
             /\ float(viewer_out.text)[1].v <= float(viewer_out.paired_text[1])[1].v

\* C26 as stated: on an invalid text validate_input sets the widget to the
\* original value it was given and returns that value; on a valid text it
\* returns the parsed value, records it in previous_valid_values and leaves
\* the widget's text alone.
C26_InvalidRevertsToOriginal ==
    pc = "validated" =>
        IF InvalidText
        THEN /\ viewer.text[viewer_out.widget] = str(viewer_out.original_value)
             /\ viewer_out.ret = viewer_out.original_value
        ELSE /\ viewer_out.ret.v = float(viewer_out.text)[1].v
             /\ viewer.previous_valid_values[viewer_out.widget] = viewer_out.ret
             /\ viewer.text[viewer_out.widget] = viewer_out.text

\* C29 as stated: between the handlers the flag updating is False; the
\* colour range the last update_slice was given has vmin < vmax, both within
\* [-5e4, 5e4]; and the update_plot calls made from inside update_plot, one
\* through update_sphere and one through update_plane, did nothing.
C29_ColourRangeOrdered ==
    pc = "viewer" =>
        /\ ~ viewer.updating
        /\ viewer.ignored_calls \in {0, 2}
        /\ viewer.update_slice_calls <= 1
        /\ viewer.update_slice_calls = 1 =>
              LET clim == viewer.bottom_slice_actor[1].clim
              IN  /\ clim[1] < clim[2]
                  /\ - CLIM_LIMIT <= clim[1] /\ clim[2] <= CLIM_LIMIT


(***************************************************************************)
(* gxampp.PyAmppGUI builds the command line of gxbox_factory.main          *)
(*                                                                         *)
(* A command is a sequence of strings.  The texts of the line edits are    *)
(* strings; res_edit is in km and padding_size_edit in percent.  The time, *)
(* the two data directories, coord_y_edit and the three grid edits keep    *)
(* the texts they start with.  main is run by typer on click's parser,     *)
(* which compares option names as they are written.                        *)
(***************************************************************************)
\* f'{n / 10**decimals:.{decimals}f}' for a whole n and 2 or 3 decimals
fixed(n, decimals) ==
    LET den == IF decimals = 2 THEN 100 ELSE 1000
        frac == abs(n) % den
        zeros == IF frac < 10 THEN (IF decimals = 2 THEN "0" ELSE "00")
                 ELSE IF frac < 100 /\ decimals = 3 THEN "0" ELSE ""
    IN  (IF n < 0 THEN "-" ELSE "") \o ToString(abs(n) \div den) \o "." \o zeros
            \o ToString(frac)

\* PyAmppGUI.get_command: <<>> where float() raises ValueError, <<the
\* command>> otherwise
get_command(self) ==
    IF float(self.res_edit) = <<>> \/ float(self.padding_size_edit) = <<>>
    THEN <<>>
    ELSE << <<"python", "gxbox_factory.py", "--time", self.model_time_edit,
              "--coords", self.coord_x_edit, self.coord_y_edit,
              IF self.hpc_radio_button THEN "--hpc"
              ELSE IF self.hgc_radio_button THEN "--hgc" ELSE "--hgs",
              "--box_dims", self.grid_x_edit, self.grid_y_edit, self.grid_z_edit,
              "--box_res", fixed(float(self.res_edit)[1].v, 3),
              "--pad_frac", fixed(float(self.padding_size_edit)[1].v, 2),
              "--data_dir", self.sdo_data_edit,
              "--gxmodel_dir", self.gx_model_edit>>
            \o (IF self.external_box_edit # ""
                THEN <<"--external_box", self.external_box_edit>> ELSE <<>>) >>

\* The options main declares: name, number of values, type of a value.
main_options ==
    { [name |-> "--time",         nargs |-> 1, type |-> "str",   required |-> TRUE],
      [name |-> "--coords",       nargs |-> 2, type |-> "float", required |-> TRUE],
      [name |-> "--hpc",          nargs |-> 0, type |-> "bool",  required |-> FALSE],
      [name |-> "--hgc",          nargs |-> 0, type |-> "bool",  required |-> FALSE],
      [name |-> "--hgs",          nargs |-> 0, type |-> "bool",  required |-> FALSE],
      [name |-> "--box-dims",     nargs |-> 3, type |-> "int",   required |-> FALSE],
      [name |-> "--box-res",      nargs |-> 1, type |-> "float", required |-> FALSE],
      [name |-> "--observer",     nargs |-> 1, type |-> "str",   required |-> FALSE],
      [name |-> "--pad-frac",     nargs |-> 1, type |-> "float", required |-> FALSE],
      [name |-> "--data-dir",     nargs |-> 1, type |-> "str",   required |-> FALSE],
      [name |-> "--gxmodel-dir",  nargs |-> 1, type |-> "str",   required |-> FALSE],
      [name |-> "--external-box", nargs |-> 1, type |-> "str",   required |-> FALSE],
      [name |-> "--interactive",  nargs |-> 0, type |-> "bool",  required |-> FALSE] }

\* The texts of the model that begin with a dash: the option names, as main
\* declares them and as get_command spells them, and the negative numerals.
DashTexts ==
    { o.name : o \in main_options }
        \cup { "--box_dims", "--box_res", "--pad_frac", "--data_dir", "--gxmodel_dir",
               "--external_box" }
        \cup { ToString(n) : n \in { m \in Numbers : m < 0 } }

\* click's test for an option token: arg[:1] is a prefix and len(arg) > 1
starts_with_dash(arg) == arg \in DashTexts

\* click's parser over the arguments: the options with their values and the
\* arguments left over, or the error it raises.  A token that begins with a
\* dash and is no declared option raises NoSuchOption; the values of an
\* option are the next nargs tokens, whatever they begin with.
RECURSIVE process_args_for_options(_, _, _)
process_args_for_options(rargs, opts, largs) ==
    IF rargs = <<>> THEN [error |-> "", opts |-> opts, largs |-> largs]
    ELSE IF starts_with_dash(Head(rargs))
    THEN LET declared == { o \in main_options : o.name = Head(rargs) }
         IN  IF declared = {}
             THEN [error |-> "NoSuchOption", opts |-> opts, largs |-> largs]
             ELSE IF Len(rargs) - 1 < TheOne(declared).nargs
             THEN [error |-> "BadOptionUsage", opts |-> opts, largs |-> largs]
             ELSE process_args_for_options(
                      SubSeq(rargs, TheOne(declared).nargs + 2, Len(rargs)),
                      Append(opts, [name |-> Head(rargs),
                                    values |-> SubSeq(rargs, 2,
                                                      TheOne(declared).nargs + 1)]),
                      largs)
    ELSE process_args_for_options(Tail(rargs), opts, Append(largs, Head(rargs)))

\* The text converts to the option's type.
converts(text, type) ==
    CASE type = "float" ->
            \/ float(text) # <<>>
            \/ \E n \in Numbers : text \in { fixed(n, 2), fixed(n, 3) }
      [] type = "int" -> \E n \in Numbers : text = ToString(n)
      [] OTHER -> TRUE

\* _validate_frame: BadParameter unless hpc + hgc + hgs = 1
validate_frame(hpc, hgc, hgs) ==
    IF (IF hpc THEN 1 ELSE 0) + (IF hgc THEN 1 ELSE 0) + (IF hgs THEN 1 ELSE 0) # 1
    THEN "BadParameter" ELSE ""

\* python gxbox_factory.py argv: the error the command line ends with, or
\* "" when main gets past _validate_frame.  Where several parameters are
\* wrong the model names a missing one before a badly typed one.
main(argv) ==
    LET parsed == process_args_for_options(argv, <<>>, <<>>)
        given(name) == \E i \in 1..Len(parsed.opts) : parsed.opts[i].name = name
    IN  IF parsed.error # "" THEN parsed.error
        ELSE IF \E o \in main_options : o.required /\ ~ given(o.name)
        THEN "MissingParameter"
        ELSE IF \E i \in 1..Len(parsed.opts) :
                  \E o \in main_options :
                      /\ o.name = parsed.opts[i].name
                      /\ \E j \in 1..Len(parsed.opts[i].values) :
                             ~ converts(parsed.opts[i].values[j], o.type)
        THEN "BadParameter"
        ELSE IF parsed.largs # <<>> THEN "UsageError"
        ELSE validate_frame(given("--hpc"), given("--hgc"), given("--hgs"))

\* update_command_display: the command is built and shown; where get_command
\* raises the display keeps what it showed
update_command_display(self) ==
    IF get_command(self) = <<>> THEN self
    ELSE [self EXCEPT !.cmd_display_edit = get_command(self)[1]]

RADIO_BUTTONS == <<"hpc_radio_button", "hgc_radio_button", "hgs_radio_button">>

\* What the user types into the line edits.
TypedCoords == {"-632", "0", "abc"}
TypedRes == {"1400", "abc"}
TypedPadding == {"25", "abc"}
TypedBox == {"", "model.gxbox"}

TYPED ==
    [w \in {"coord_x_edit", "res_edit", "padding_size_edit", "external_box_edit"} |->
        CASE w = "coord_x_edit" -> TypedCoords
          [] w = "res_edit" -> TypedRes
          [] w = "padding_size_edit" -> TypedPadding
          [] OTHER -> TypedBox]

\* gxampp.main: the window as it is shown, with one frame button checked
PyAmppGUI(checked) ==
    update_command_display(
        [hpc_radio_button |-> checked = "hpc_radio_button",
         hgc_radio_button |-> checked = "hgc_radio_button",
         hgs_radio_button |-> checked = "hgs_radio_button",
         model_time_edit |-> "2014-11-01T16:40:00",
         coord_x_edit |-> "-632", coord_y_edit |-> "-135",
         grid_x_edit |-> "150", grid_y_edit |-> "150", grid_z_edit |-> "100",
         res_edit |-> "1400", padding_size_edit |-> "25",
         sdo_data_edit |-> "download", gx_model_edit |-> "gx_models",
         external_box_edit |-> "",
         cmd_display_edit |-> <<>>])

InitGui ==
    /\ pc = "gui"
    /\ \E checked \in Range(RADIO_BUTTONS) : gui = PyAmppGUI(checked)
    /\ command = <<>>
    /\ viewer = <<>> /\ viewer_out = <<>>
    /\ gxbox = <<>> /\ gx_request = <<>>
    /\ box = <<>> /\ box_out = <<>>
    /\ az_map = <<>> /\ dis_map = <<>> /\ method_arg = <<>>
    /\ az_orig = <<>> /\ dis_orig = <<>>
    /\ ret1 = <<>> /\ ret1_orig = <<>> /\ ret2 = <<>>
    /\ b_field = <<>> /\ b_incl = <<>> /\ b_azim = <<>> /\ bptr_ret = <<>>

\* The user types into a line edit; no handler runs before Return.
TypeText ==
    /\ pc = "gui"
    /\ \E w \in DOMAIN TYPED : \E text \in TYPED[w] :
          gui' = [gui EXCEPT ![w] = text]
    /\ UNCHANGED <<pc, command, viewer, viewer_out,
                   disambig_vars, b2ptr_vars, gxbox_vars, box_vars>>

\* on_coord_x_input_return_pressed, on_res_input_return_pressed (under
\* validate_number) and on_padding_size_input_return_pressed
ReturnPressed ==
    /\ pc = "gui"
    /\ \E w \in {"coord_x_edit", "res_edit", "padding_size_edit"} :
          gui' = IF w # "padding_size_edit" /\ float(gui[w]) = <<>>
                 THEN gui
                 ELSE update_command_display(gui)
    /\ UNCHANGED <<pc, command, viewer, viewer_out,
                   disambig_vars, b2ptr_vars, gxbox_vars, box_vars>>

\* The user checks another frame button: update_hpc_state, update_hgc_state
\* or update_hgs_state writes the window's centre, transformed to the new
\* frame, into the coordinate edits and shows the command.  The transformed
\* x is any of the numerals; coord_y_edit keeps its text in the model.
ToggleFrame ==
    /\ pc = "gui"
    /\ \E b \in Range(RADIO_BUTTONS) :
          /\ ~ gui[b]
          /\ \E x \in TypedCoords \ {"abc"} :
                gui' = LET checked == [gui EXCEPT
                                          !.hpc_radio_button = (b = "hpc_radio_button"),
                                          !.hgc_radio_button = (b = "hgc_radio_button"),
                                          !.hgs_radio_button = (b = "hgs_radio_button")]
                       IN  update_command_display([checked EXCEPT !.coord_x_edit = x])
    /\ UNCHANGED <<pc, command, viewer, viewer_out,
                   disambig_vars, b2ptr_vars, gxbox_vars, box_vars>>

\* execute_command: the command is built and run; command keeps what was
\* run and how its command line ended
ExecuteCommand ==
    /\ pc = "gui"
    /\ get_command(gui) # <<>>
    /\ command' = [command |-> get_command(gui)[1],
                   error |-> main(SubSeq(get_command(gui)[1], 3,
                                         Len(get_command(gui)[1])))]
    /\ UNCHANGED <<pc, gui, viewer, viewer_out,
                   disambig_vars, b2ptr_vars, gxbox_vars, box_vars>>

NextGui == TypeText \/ ReturnPressed \/ ToggleFrame \/ ExecuteCommand

SpecGui == InitGui /\ [][NextGui]_vars

\* C30 as stated: every command execute_command built and ran carries
\* exactly one of --hpc, --hgc and --hgs, every token of it that begins with
\* a dash in an option's place is an option main declares, and its command
\* line is accepted: no error is raised up to and including _validate_frame.
C30_GuiCommandAccepted ==
    (pc = "gui" /\ command # <<>>) =>
        /\ Cardinality({ i \in 1..Len(command.command) :
                            command.command[i] \in {"--hpc", "--hgc", "--hgs"} }) = 1
        /\ command.error = ""

====
